---- MODULE Spec2Model ----
(***************************************************************************)
(* jsonschemabench: the per-sample generation lifecycle of every engine    *)
(* (src/engines/*.py behind Engine.generate, src/core/engine.py and the    *)
(* profiling wrapper of src/core/profile.py) and the evaluator             *)
(* (src/core/evaluator.py).                                                *)
(*                                                                         *)
(* Spec     : one worker of bench driving Engine.generate sample after     *)
(*            sample.  A step of an engine's _generate is one action; the  *)
(*            stopit.ThreadingTimeout timer may fire at any statement      *)
(*            boundary inside the `with` block it guards.                  *)
(*            The worker is bench (src/core/bench.py): it writes the first *)
(*            line of its output file, collects the results of the task    *)
(*            and calls evaluate when the dataset iterator is exhausted.   *)
(* SpecEval : evaluate(outputs) of src/core/evaluator.py, statement by     *)
(*            statement, on a bounded list of generation outputs.          *)
(* SpecPerf : the profiling wrapper on any timestamps.                     *)
(* SpecRunner : main of src/multiple_providers_runner.py: the pool of      *)
(*            provider workers, each running its models one after another. *)
(* SpecSink : workers appending their row to the shared CSV and uploading  *)
(*            it (src/core/bench.py 108-123, src/core/utils.py 144-178).   *)
(* SpecAnalyze : bench appending records to its output file and           *)
(*            src/analyze.py reading the file back.                        *)
(* SpecPrint : worker threads entering and leaving disable_print           *)
(*            (src/core/utils.py 70-80).                                   *)
(* SpecAdapt : a schema adapted by bench and again by Engine.generate.     *)
(* SpecValidate : validate_json_schema on sampled schemas and instances.   *)
(***************************************************************************)
EXTENDS Integers, Sequences, FiniteSets, TLC

\* ---------------------------------------------------------------- bounds
\* samples one worker processes (the dataset iterator's length)
MaxSamples == 2
\* content chunks a stream can deliver before it ends, fails or stalls
MaxChunks == 2

\* ------------------------------------------------------------- constants
\* Optional[...] fields hold None; the clock only yields naturals
None == -1

Engines ==
    {"guidance", "llama_cpp", "outlines", "xgrammar", "huggingface",
     "openai", "gemini", "openai_compatible"}

\* engines whose _generate is OpenAIEngine._generate (gemini inherits it)
OpenAIFamily == {"openai", "gemini"}

\* engines with a grammar compilation step of their own
CompilingEngines == {"guidance", "llama_cpp", "outlines", "xgrammar"}

CompileStatusCode ==
    {"TBD", "OK", "UNSUPPORTED_SCHEMA", "RUNTIME_GRAMMAR_ERROR",
     "API_BAD_RESPONSE", "PROMPT_TOO_LONG", "COMPILE_TIMEOUT",
     "RUNTIME_TIMEOUT", "UNKOWN_ERROR"}

DecodingStatusCode ==
    {"TBD", "OK", "EXCEEDING_MAX_CTX", "DECODING_TIMEOUT",
     "BAD_API_RESPONSE", "UNKOWN_ERROR"}

\* ----------------------------------------------------------------- state
VARIABLES
    engine,       \* the worker's engine (Engine.name)
    sample,       \* number of generate calls started by bench
    pc,           \* position in Engine.generate / _generate
    env,          \* how the backend behaves for the current sample
    now,          \* the clock read by time()
    gen_start_time,
    to_state,     \* state of the current stopit.ThreadingTimeout
    compile_status,
    decoding_status,
    grammar_compilation_end_time,
    first_token_arrival_time,
    generation,
    generated_tokens,
    token_usage,  \* [input_tokens, output_tokens] of the output
    perf_metrics,
    total_usage,  \* Engine.total_usage
    tokens_bound, \* the local tokens_str is bound
    tokens_str,
    chunks_seen,  \* chunks the stream loop has received (enumerate's i)
    ftat_local,   \* the local first_token_arrival_time / timestamps[0]
    probe_result, \* outcome of _check_grammar_safety for this sample
    decode_entered,   \* history: the decode stage was started
    stream_failed,    \* history: the backend failed while streaming
    failed_probes,    \* history: child behaviours of the probes that failed
    ev,           \* the evaluator's state (SpecEval)
    save_outputs, \* bench's save_outputs argument
    task_outputs, \* bench's task_outputs: the results of the current task
    jsonl,        \* the lines of the file at save_json_output_path
    evaluate_calls,   \* history: calls of evaluate, per task of the tasks list
    config_file,  \* main's config_file: provider -> config file names
    main_pc,      \* position of main
    worker,       \* provider -> state of its run_provider_benchmarks future
    csv,          \* the lines of eval_results.csv
    write_lock,   \* holder of bench.write_lock
    writer,       \* writer -> position in the persistence step of bench
    s3,           \* the object stored under the CSV's remote key
    persisted,    \* history: the outputs bench appended to the output file
    analyze_pc,   \* position of analyze.py's main block
    f_pos,        \* analyze: index of the next line the open file returns
    lines,        \* analyze: the lines still to be parsed
    outputs,      \* analyze: the list `outputs`
    val,          \* one call of validate_json_schema (SpecValidate)
    sys_stdout,   \* the stream sys.stdout is bound to
    sys_stderr,   \* the stream sys.stderr is bound to
    printer,      \* thread -> its position in and locals of disable_print
    adapt         \* one schema through bench and Engine.generate (SpecAdapt)

lifecycle_vars ==
    <<engine, sample, pc, env, now, gen_start_time, to_state, compile_status,
      decoding_status, grammar_compilation_end_time, first_token_arrival_time,
      generation, generated_tokens, token_usage, perf_metrics, total_usage,
      tokens_bound, tokens_str, chunks_seen, ftat_local, probe_result,
      decode_entered, stream_failed, failed_probes>>

\* bench's own state around the sample loop
bench_vars == <<save_outputs, task_outputs, jsonl, evaluate_calls>>

\* the runner (SpecRunner)
runner_vars == <<config_file, main_pc, worker>>

\* the shared result sink (SpecSink)
sink_vars == <<csv, write_lock, writer, s3>>

\* analyze.py, the validator, disable_print and adapt_schema
\* (SpecAnalyze, SpecValidate, SpecPrint, SpecAdapt)
analyze_vars == <<persisted, analyze_pc, f_pos, lines, outputs>>

print_vars == <<sys_stdout, sys_stderr, printer>>

tool_vars == <<analyze_vars, val, print_vars, adapt>>

vars == <<lifecycle_vars, ev, bench_vars, runner_vars, sink_vars, tool_vars>>

\* the fields of the GenerationOutput under construction
output_vars ==
    <<compile_status, decoding_status, grammar_compilation_end_time,
      first_token_arrival_time, generation, generated_tokens, token_usage>>

\* the locals of _generate
local_vars == <<tokens_bound, tokens_str, chunks_seen, ftat_local>>

history_vars == <<decode_entered, stream_failed, failed_probes>>

\* what no step of _generate touches
frame_vars ==
    <<engine, sample, env, gen_start_time, perf_metrics, total_usage, ev,
      bench_vars, runner_vars, tool_vars, sink_vars>>

\* --------------------------------------------------------------- helpers
\* the subtraction without the None guard
safe_subtract_NoGuard(a, b) == a - b

safe_subtract(a, b) == IF a = None \/ b = None THEN None ELSE a - b

\* a / b on the integers of the model (the quotient is floored)
safe_divide(a, b) == IF a = None \/ b = None \/ b = 0 THEN None ELSE a \div b

from_timestamps(start_time, gce_time, ftat, end_time, num_output_tokens) ==
    LET tpot == IF num_output_tokens > 0
                THEN safe_divide(safe_subtract(end_time, ftat),
                                 safe_subtract(num_output_tokens, 1))
                ELSE None
    IN  [ttft |-> safe_subtract(ftat, start_time),
         tpot |-> IF tpot # None THEN tpot * 1000 ELSE None,
         tgt  |-> safe_subtract(end_time, start_time),
         gct  |-> safe_subtract(gce_time, start_time),
         prft |-> safe_subtract(ftat, gce_time)]

NoPerfMetrics ==
    [ttft |-> None, tpot |-> None, tgt |-> None, gct |-> None, prft |-> None]

TokenUsage == [input_tokens |-> 0, output_tokens |-> 0]

\* Engine.count_tokens: one token per streamed fragment
count_tokens(text) == Len(text)

\* "".join(tokens_str): the fragments in arrival order
join(fragments) == fragments

\* The backend behaviours of one sample.  compile/probe: what the grammar
\* compiler does ("crash" is a native fault); request: the API request;
\* nchunks content chunks are streamed, then a closing chunk without content
\* (final), then the stream ends, raises or stalls; keyok: the guidance
\* state holds "generated_object".
DefaultEnv ==
    [compile |-> "ok", probe |-> "ok", request |-> "ok", nchunks |-> 0,
     final |-> TRUE, stream_end |-> "end", keyok |-> TRUE]

StreamEnvs(base) ==
    {[base EXCEPT !.nchunks = n, !.final = f, !.stream_end = s] :
        n \in 0..MaxChunks, f \in BOOLEAN, s \in {"end", "raise", "hang"}}

EnvsOf(e) ==
    CASE e = "guidance" ->
           UNION {StreamEnvs([DefaultEnv EXCEPT !.compile = c, !.keyok = k]) :
                    c \in {"ok", "raise", "hang"}, k \in BOOLEAN}
      [] e = "llama_cpp" ->
           UNION {StreamEnvs([DefaultEnv EXCEPT !.compile = c, !.probe = p]) :
                    c \in {"ok", "raise", "hang"},
                    p \in {"ok", "raise", "hang", "crash"}}
      [] e = "outlines" ->
           UNION {StreamEnvs([DefaultEnv EXCEPT !.compile = c]) :
                    c \in {"ok", "raise", "hang"}}
      [] e = "xgrammar" ->
           UNION {StreamEnvs([DefaultEnv EXCEPT !.compile = c]) :
                    c \in {"ok", "raise", "hang", "crash"}}
      [] e = "huggingface" -> StreamEnvs(DefaultEnv)
      [] OTHER ->
           UNION {StreamEnvs([DefaultEnv EXCEPT !.request = r]) :
                    r \in {"ok", "raise"}}

\* ------------------------------------------------------------------ Init
EvIdle == [pc |-> "idle"]

\* the tasks list bench is called with
tasks == <<"Github_easy", "Github_hard">>

\* a path at which no file exists
NoFile == [exists |-> FALSE, lines |-> <<>>]

\* before bench is called: no result, no output file, no call of evaluate
BenchIdle ==
    /\ save_outputs = FALSE
    /\ task_outputs = <<>>
    /\ jsonl = NoFile
    /\ evaluate_calls = [t \in 1..Len(tasks) |-> 0]

\* before main runs: no configuration read, no future submitted
RunnerIdle ==
    /\ config_file = <<>>
    /\ main_pc = "idle"
    /\ worker = <<>>

\* before any worker reaches the persistence step
SinkIdle ==
    /\ csv = NoFile
    /\ write_lock = None
    /\ writer = <<>>
    /\ s3 = NoFile

\* the real streams of the process
RealStdout == "stdout"
RealStderr == "stderr"

\* analyze.py not started, no validation, adaptation or disable_print running
ToolIdle ==
    /\ persisted = <<>>
    /\ analyze_pc = "idle"
    /\ f_pos = 1
    /\ lines = <<>>
    /\ outputs = <<>>
    /\ val = [pc |-> "idle"]
    /\ sys_stdout = RealStdout
    /\ sys_stderr = RealStderr
    /\ printer = <<>>
    /\ adapt = [pc |-> "idle"]

Init ==
    /\ engine \in Engines
    /\ sample = 0
    /\ pc = "bench"
    /\ env = DefaultEnv
    /\ now = 0
    /\ gen_start_time = 0
    /\ to_state = "EXECUTED"
    /\ compile_status = "TBD"
    /\ decoding_status = "TBD"
    /\ grammar_compilation_end_time = None
    /\ first_token_arrival_time = None
    /\ generation = <<>>
    /\ generated_tokens = <<>>
    /\ token_usage = TokenUsage
    /\ perf_metrics = NoPerfMetrics
    /\ total_usage = TokenUsage
    /\ tokens_bound = FALSE
    /\ tokens_str = <<>>
    /\ chunks_seen = 0
    /\ ftat_local = None
    /\ probe_result = "none"
    /\ decode_entered = FALSE
    /\ stream_failed = FALSE
    /\ failed_probes = {}
    /\ ev = EvIdle
    /\ save_outputs \in BOOLEAN
    /\ task_outputs = <<>>
    /\ jsonl = NoFile
    /\ evaluate_calls = [t \in 1..Len(tasks) |-> 0]
    /\ RunnerIdle
    /\ SinkIdle
    /\ ToolIdle

\* ------------------------------------------------------ bench (entry, end)
\* json.dumps of a value followed by "\n": one complete line
dumps(value) == [json |-> value, newline |-> TRUE]

\* the first line of the output file
HeaderLine(e) == dumps([engine |-> e, engine_config |-> "asdict(engine.config)"])

\* the header written without its line end
BenchStart_NoNewline ==
    /\ pc = "bench"
    /\ jsonl' = IF save_outputs
                THEN [exists |-> TRUE,
                      lines |-> <<[HeaderLine(engine) EXCEPT !.newline = FALSE]>>]
                ELSE jsonl
    /\ pc' = "idle"
    /\ UNCHANGED <<engine, sample, env, now, gen_start_time, to_state,
                   output_vars, perf_metrics, total_usage, local_vars,
                   probe_result, history_vars, ev, save_outputs, task_outputs,
                   evaluate_calls, runner_vars, tool_vars, sink_vars>>

\* bench up to the sample loop of the first task: with save_outputs the
\* output file is opened with "w", the header line written and the file
\* closed; task_outputs starts empty.
BenchStart ==
    /\ pc = "bench"
    /\ jsonl' = IF save_outputs
                THEN [exists |-> TRUE, lines |-> <<HeaderLine(engine)>>]
                ELSE jsonl
    /\ pc' = "idle"
    /\ UNCHANGED <<engine, sample, env, now, gen_start_time, to_state,
                   output_vars, perf_metrics, total_usage, local_vars,
                   probe_result, history_vars, ev, save_outputs, task_outputs,
                   evaluate_calls, runner_vars, tool_vars, sink_vars>>

\* The dataset iterator is exhausted and bench calls evaluate(task_outputs)
\* for the task.  evaluate raises ValueError (an empty pool) or returns its
\* five components, and bench unpacks six names from them, which raises
\* ValueError: either way the exception leaves bench at this statement and
\* nothing after it runs (no record, no CSV row, no later task).
Evaluate ==
    /\ pc = "idle"
    /\ evaluate_calls' = [evaluate_calls EXCEPT ![1] = @ + 1]
    /\ pc' = "aborted"
    /\ UNCHANGED <<engine, sample, env, now, gen_start_time, to_state,
                   output_vars, perf_metrics, total_usage, local_vars,
                   probe_result, history_vars, ev, save_outputs, task_outputs,
                   jsonl, runner_vars, tool_vars, sink_vars>>

\* ------------------------------------------------ Engine.generate (entry)
\* bench calls engine.generate: the profiling wrapper reads the clock (time
\* is counted from this reading), then Engine.generate builds a fresh
\* GenerationOutput and calls _generate.
Generate ==
    /\ pc = "idle"
    /\ sample < MaxSamples
    /\ sample' = sample + 1
    /\ env' \in EnvsOf(engine)
    /\ gen_start_time' = 0
    /\ now' = 1
    /\ to_state' = "EXECUTED"
    /\ compile_status' = "TBD"
    /\ decoding_status' = "TBD"
    /\ grammar_compilation_end_time' = None
    /\ first_token_arrival_time' = None
    /\ generation' = <<>>
    /\ generated_tokens' = <<>>
    /\ token_usage' = TokenUsage
    /\ perf_metrics' = NoPerfMetrics
    /\ tokens_bound' = FALSE
    /\ tokens_str' = <<>>
    /\ chunks_seen' = 0
    /\ ftat_local' = None
    /\ probe_result' = "none"
    /\ decode_entered' = FALSE
    /\ stream_failed' = FALSE
    /\ pc' = "start"
    /\ UNCHANGED <<engine, total_usage, failed_probes, ev, bench_vars,
                   runner_vars, tool_vars, sink_vars>>

\* TokenUsage.__add__: field-wise addition
TokenUsage_add(a, b) ==
    [input_tokens  |-> a.input_tokens + b.input_tokens,
     output_tokens |-> a.output_tokens + b.output_tokens]

\* the usage of the output replaces the total instead of being added to it
Return_NoAccumulate ==
    /\ pc = "ret"
    /\ total_usage' = token_usage
    /\ perf_metrics' =
         from_timestamps(gen_start_time, grammar_compilation_end_time,
                         first_token_arrival_time, now,
                         token_usage.output_tokens)
    /\ task_outputs' = Append(task_outputs, [token_usage |-> token_usage])
    /\ pc' = "idle"
    /\ UNCHANGED <<engine, sample, env, now, gen_start_time, to_state, output_vars,
                   local_vars, probe_result, history_vars, ev, save_outputs,
                   jsonl, evaluate_calls, runner_vars, tool_vars, sink_vars>>

\* _generate returned: Engine.generate adds the usage to total_usage, the
\* profiling wrapper derives the perf metrics from the timestamps and bench
\* appends the result to task_outputs.
Return ==
    /\ pc = "ret"
    /\ total_usage' = TokenUsage_add(total_usage, token_usage)
    /\ perf_metrics' =
         from_timestamps(gen_start_time, grammar_compilation_end_time,
                         first_token_arrival_time, now,
                         token_usage.output_tokens)
    /\ task_outputs' = Append(task_outputs, [token_usage |-> token_usage])
    /\ pc' = "idle"
    /\ UNCHANGED <<engine, sample, env, now, gen_start_time, to_state, output_vars,
                   local_vars, probe_result, history_vars, ev, save_outputs,
                   jsonl, evaluate_calls, runner_vars, tool_vars, sink_vars>>

\* the prompt the chat formatter renders from the messages
Prompt == <<"p">>

\* time(): the clock advances with every reading
Tick == now' = now + 1

\* chunks the backend delivers before the stream ends, fails or stalls
TotalChunks == env.nchunks + (IF env.final THEN 1 ELSE 0)

\* the text the backend generated: one fragment per content chunk
GeneratedText == [i \in 1..env.nchunks |-> "t"]

\* --------------------------------------- the timed compile block (shared)
\* guidance, llama_cpp, outlines and xgrammar guard the same block with
\* stopit.ThreadingTimeout(COMPILATION_TIMEOUT): call the compiler, record
\* grammar_compilation_end_time, set CompileStatus OK, leave the block.

\* the compiler call returns, or raises into the engine's except clause
CompileCall(e) ==
    /\ engine = e
    /\ pc = "c_call"
    /\ \/ /\ env.compile = "ok"
          /\ pc' = "c_stamp"
          /\ UNCHANGED compile_status
       \/ /\ env.compile = "raise"
          /\ compile_status' = "UNSUPPORTED_SCHEMA"
          /\ pc' = "ret"
    /\ UNCHANGED <<frame_vars, now, to_state, decoding_status,
                   grammar_compilation_end_time, first_token_arrival_time,
                   generation, generated_tokens, token_usage, local_vars,
                   probe_result, history_vars>>

CompileStamp(e) ==
    /\ engine = e
    /\ pc = "c_stamp"
    /\ grammar_compilation_end_time' = now
    /\ Tick
    /\ pc' = "c_ok"
    /\ UNCHANGED <<frame_vars, to_state, compile_status, decoding_status,
                   first_token_arrival_time, generation, generated_tokens,
                   token_usage, local_vars, probe_result, history_vars>>

\* CompileOk without the assignment: the block is left with the code still TBD
CompileOk_NoStatus(e) ==
    /\ engine = e
    /\ pc = "c_ok"
    /\ pc' = "c_exit"
    /\ UNCHANGED <<frame_vars, now, to_state, compile_status, decoding_status,
                   grammar_compilation_end_time, first_token_arrival_time,
                   generation, generated_tokens, token_usage, local_vars,
                   probe_result, history_vars>>

\* `output.metadata.compile_status = CompileStatus(code=CompileStatusCode.OK)`
CompileOk(e) ==
    /\ engine = e
    /\ pc = "c_ok"
    /\ compile_status' = "OK"
    /\ pc' = "c_exit"
    /\ UNCHANGED <<frame_vars, now, to_state, decoding_status,
                   grammar_compilation_end_time, first_token_arrival_time,
                   generation, generated_tokens, token_usage, local_vars,
                   probe_result, history_vars>>

\* the block is left before the timer fired: __exit__ sets EXECUTED
CompileExit(e) ==
    /\ engine = e
    /\ pc = "c_exit"
    /\ to_state = "EXECUTING"
    /\ to_state' = "EXECUTED"
    /\ pc' = "c_after"
    /\ UNCHANGED <<frame_vars, now, output_vars, local_vars, probe_result,
                   history_vars>>

\* the timer fires while the block runs: the TimeoutException is raised at
\* the current statement and swallowed by __exit__, the state is TIMED_OUT
CompileTimeout(e) ==
    /\ engine = e
    /\ pc \in {"c_call", "c_stamp", "c_ok", "c_exit"}
    /\ to_state = "EXECUTING"
    /\ to_state' = "TIMED_OUT"
    /\ pc' = "c_after"
    /\ UNCHANGED <<frame_vars, now, output_vars, local_vars, probe_result,
                   history_vars>>

\* AfterCompile without its `return`: the status is set, the lifecycle goes on
AfterCompile_NoReturn(e, next) ==
    /\ engine = e
    /\ pc = "c_after"
    /\ compile_status' =
         IF to_state = "TIMED_OUT" THEN "COMPILE_TIMEOUT" ELSE compile_status
    /\ pc' = next
    /\ UNCHANGED <<frame_vars, now, to_state, decoding_status,
                   grammar_compilation_end_time, first_token_arrival_time,
                   generation, generated_tokens, token_usage, local_vars,
                   probe_result, history_vars>>

\* `if to_ctx_mgr.state == TIMED_OUT: COMPILE_TIMEOUT; return`, else go on
AfterCompile(e, next) ==
    /\ engine = e
    /\ pc = "c_after"
    /\ IF to_state = "TIMED_OUT"
       THEN /\ compile_status' = "COMPILE_TIMEOUT"
            /\ pc' = "ret"
       ELSE /\ pc' = next
            /\ UNCHANGED compile_status
    /\ UNCHANGED <<frame_vars, now, to_state, decoding_status,
                   grammar_compilation_end_time, first_token_arrival_time,
                   generation, generated_tokens, token_usage, local_vars,
                   probe_result, history_vars>>

\* ---------------------------------------- the timed decode block (shared)
\* entering `with stopit.ThreadingTimeout(GENERATION_TIMEOUT)`
DecodeEnter(e, next) ==
    /\ engine = e
    /\ pc = "d_enter"
    /\ to_state' = "EXECUTING"
    /\ decode_entered' = TRUE
    /\ pc' = next
    /\ UNCHANGED <<frame_vars, now, output_vars, local_vars, probe_result,
                   stream_failed, failed_probes>>

\* the stream ended: the loop is left
DecodeEnd(e, next) ==
    /\ engine = e
    /\ pc = "d_stream"
    /\ chunks_seen = TotalChunks
    /\ env.stream_end = "end"
    /\ pc' = next
    /\ UNCHANGED <<frame_vars, now, to_state, output_vars, local_vars,
                   probe_result, history_vars>>

\* the backend raises while streaming: `except Exception` of the decode try
DecodeRaise(e) ==
    /\ engine = e
    /\ pc = "d_stream"
    /\ chunks_seen = TotalChunks
    /\ env.stream_end = "raise"
    /\ decoding_status' = "UNKOWN_ERROR"
    /\ stream_failed' = TRUE
    /\ pc' = "ret"
    /\ UNCHANGED <<frame_vars, now, to_state, compile_status,
                   grammar_compilation_end_time, first_token_arrival_time,
                   generation, generated_tokens, token_usage, local_vars,
                   probe_result, decode_entered, failed_probes>>

DecodeOk(e) ==
    /\ engine = e
    /\ pc = "d_ok"
    /\ decoding_status' = "OK"
    /\ pc' = "d_exit"
    /\ UNCHANGED <<frame_vars, now, to_state, compile_status,
                   grammar_compilation_end_time, first_token_arrival_time,
                   generation, generated_tokens, token_usage, local_vars,
                   probe_result, history_vars>>

DecodeExit(e) ==
    /\ engine = e
    /\ pc = "d_exit"
    /\ to_state = "EXECUTING"
    /\ to_state' = "EXECUTED"
    /\ pc' = "d_after"
    /\ UNCHANGED <<frame_vars, now, output_vars, local_vars, probe_result,
                   history_vars>>

DecodeTimeout(e) ==
    /\ engine = e
    /\ pc \in {"d_open", "d_stream", "d_ok", "d_exit"}
    /\ to_state = "EXECUTING"
    /\ to_state' = "TIMED_OUT"
    /\ pc' = "d_after"
    /\ UNCHANGED <<frame_vars, now, output_vars, local_vars, probe_result,
                   history_vars>>

\* -------------------------------------------------------------- guidance
\* count the prompt tokens, enter the compile block
GuidanceStart ==
    /\ engine = "guidance"
    /\ pc = "start"
    /\ token_usage' = [token_usage EXCEPT !.input_tokens = count_tokens(Prompt)]
    /\ to_state' = "EXECUTING"
    /\ pc' = "c_call"
    /\ UNCHANGED <<frame_vars, now, compile_status, decoding_status,
                   grammar_compilation_end_time, first_token_arrival_time,
                   generation, generated_tokens, local_vars, probe_result,
                   history_vars>>

\* one state of the stream: the first one records first_token_arrival_time
GuidanceChunk ==
    /\ engine = "guidance"
    /\ pc = "d_stream"
    /\ chunks_seen < TotalChunks
    /\ IF chunks_seen = 0
       THEN first_token_arrival_time' = now /\ Tick
       ELSE UNCHANGED <<first_token_arrival_time, now>>
    /\ chunks_seen' = chunks_seen + 1
    /\ UNCHANGED <<frame_vars, pc, to_state, compile_status, decoding_status,
                   grammar_compilation_end_time, generation, generated_tokens,
                   token_usage, tokens_bound, tokens_str, ftat_local,
                   probe_result, history_vars>>

\* on TIMED_OUT: DECODING_TIMEOUT, unset first_token_arrival_time, return
GuidanceAfterDecode ==
    /\ engine = "guidance"
    /\ pc = "d_after"
    /\ IF to_state = "TIMED_OUT"
       THEN /\ decoding_status' = "DECODING_TIMEOUT"
            /\ first_token_arrival_time' = None
            /\ pc' = "ret"
       ELSE /\ pc' = "extract"
            /\ UNCHANGED <<decoding_status, first_token_arrival_time>>
    /\ UNCHANGED <<frame_vars, now, to_state, compile_status,
                   grammar_compilation_end_time, generation, generated_tokens,
                   token_usage, local_vars, probe_result, history_vars>>

\* guidance_state["generated_object"]: guidance_state is unbound when the
\* stream yielded no state (an UnboundLocalError, which `except KeyError`
\* does not catch); a KeyError gives UNKOWN_ERROR and an empty generation
GuidanceExtract ==
    /\ engine = "guidance"
    /\ pc = "extract"
    /\ IF chunks_seen = 0
       THEN /\ pc' = "raised"
            /\ UNCHANGED <<decoding_status, generation, token_usage>>
       ELSE /\ decoding_status' = IF env.keyok THEN "OK" ELSE "UNKOWN_ERROR"
            /\ generation' = IF env.keyok THEN GeneratedText ELSE <<>>
            /\ token_usage' =
                 [token_usage EXCEPT !.output_tokens = count_tokens(generation')]
            /\ pc' = "ret"
    /\ UNCHANGED <<frame_vars, now, to_state, compile_status,
                   grammar_compilation_end_time, first_token_arrival_time,
                   generated_tokens, local_vars, probe_result, history_vars>>

\* ------------------------------------------------- crash-isolation probes
\* os.waitpid's status of the forked child: it exits 0 when the compiler
\* returned, 1 when it raised, 2 from the SIGALRM handler when it did not
\* return in time, and is killed by the signal of a native fault
ChildStatus(behaviour) ==
    CASE behaviour = "ok"    -> [exited |-> TRUE,  code |-> 0, signaled |-> FALSE]
      [] behaviour = "raise" -> [exited |-> TRUE,  code |-> 1, signaled |-> FALSE]
      [] behaviour = "hang"  -> [exited |-> TRUE,  code |-> 2, signaled |-> FALSE]
      [] behaviour = "crash" -> [exited |-> FALSE, code |-> 0, signaled |-> TRUE]

\* _check_grammar_safety without the WIFEXITED test: WEXITSTATUS of a child
\* killed by a signal is 0
LlamaCppCheckGrammarSafety_NoWifexited(status) ==
    [success |-> status.code = 0, exit_code |-> status.code]

\* LlamaCppEngine._check_grammar_safety: the returned dict
LlamaCppCheckGrammarSafety(status) ==
    IF status.exited
    THEN [success |-> status.code = 0, exit_code |-> status.code]
    ELSE [success |-> FALSE, exit_code |-> None]

\* XGrammarEngine._check_grammar_safety: the returned dict
XGrammarCheckGrammarSafety(status) ==
    IF status.exited
    THEN [success |-> status.code = 0, exit_code |-> status.code]
    ELSE IF status.signaled
         THEN [success |-> FALSE, exit_code |-> -11]
         ELSE [success |-> FALSE, exit_code |-> None]

\* ------------------------------------------------------------- llama_cpp
LlamaCppStart ==
    /\ engine = "llama_cpp"
    /\ pc = "start"
    /\ token_usage' = [token_usage EXCEPT !.input_tokens = count_tokens(Prompt)]
    /\ to_state' = "EXECUTING"
    /\ pc' = "c_call"
    /\ UNCHANGED <<frame_vars, now, compile_status, decoding_status,
                   grammar_compilation_end_time, first_token_arrival_time,
                   generation, generated_tokens, local_vars, probe_result,
                   history_vars>>

\* segfault_check = self._check_grammar_safety(grammar): on failure the
\* status is set to UNSUPPORTED_SCHEMA and _generate returns
LlamaCppProbe ==
    /\ engine = "llama_cpp"
    /\ pc = "probe"
    /\ LET segfault_check == LlamaCppCheckGrammarSafety(ChildStatus(env.probe))
       IN  IF ~segfault_check.success
           THEN /\ compile_status' = "UNSUPPORTED_SCHEMA"
                /\ probe_result' = "fail"
                /\ failed_probes' = failed_probes \cup {env.probe}
                /\ pc' = "ret"
           ELSE /\ probe_result' = "ok"
                /\ pc' = "d_enter"
                /\ UNCHANGED <<compile_status, failed_probes>>
    /\ UNCHANGED <<frame_vars, now, to_state, decoding_status,
                   grammar_compilation_end_time, first_token_arrival_time,
                   generation, generated_tokens, token_usage, local_vars,
                   decode_entered, stream_failed>>

\* create_chat_completion(stream=True, grammar=grammar); tokens_str = [].
\* The sampler adds the grammar in this process: a grammar that faults
\* natively takes the process down.
LlamaCppOpen ==
    /\ engine = "llama_cpp"
    /\ pc = "d_open"
    /\ IF env.probe = "crash"
       THEN /\ pc' = "crashed"
            /\ UNCHANGED <<tokens_bound, tokens_str>>
       ELSE /\ tokens_bound' = TRUE
            /\ tokens_str' = <<>>
            /\ pc' = "d_stream"
    /\ UNCHANGED <<frame_vars, now, to_state, output_vars, chunks_seen,
                   ftat_local, probe_result, history_vars>>

\* one chunk: the first records first_token_arrival_time; a chunk without
\* content (finish_reason set) is skipped
LlamaCppChunk ==
    /\ engine = "llama_cpp"
    /\ pc = "d_stream"
    /\ chunks_seen < TotalChunks
    /\ IF chunks_seen = 0
       THEN first_token_arrival_time' = now /\ Tick
       ELSE UNCHANGED <<first_token_arrival_time, now>>
    /\ tokens_str' = IF chunks_seen < env.nchunks
                     THEN Append(tokens_str, "t") ELSE tokens_str
    /\ chunks_seen' = chunks_seen + 1
    /\ UNCHANGED <<frame_vars, pc, to_state, compile_status, decoding_status,
                   grammar_compilation_end_time, generation, generated_tokens,
                   token_usage, tokens_bound, ftat_local, probe_result,
                   history_vars>>

\* `if to_ctx_mgr.state == TIMED_OUT: DECODING_TIMEOUT` (no return follows)
TokenListAfterDecode(e) ==
    /\ engine = e
    /\ pc = "d_after"
    /\ decoding_status' =
         IF to_state = "TIMED_OUT" THEN "DECODING_TIMEOUT" ELSE decoding_status
    /\ pc' = "finish"
    /\ UNCHANGED <<frame_vars, now, to_state, compile_status,
                   grammar_compilation_end_time, first_token_arrival_time,
                   generation, generated_tokens, token_usage, local_vars,
                   probe_result, history_vars>>

\* generation = "".join(tokens_str) and the token fields; tokens_str is
\* unbound (UnboundLocalError, outside every try) when the timer fired
\* before `tokens_str = []`
TokenListFinish(e) ==
    /\ engine = e
    /\ pc = "finish"
    /\ IF ~tokens_bound
       THEN /\ pc' = "raised"
            /\ UNCHANGED <<generation, generated_tokens, token_usage>>
       ELSE /\ generation' = join(tokens_str)
            /\ token_usage' =
                 [token_usage EXCEPT !.output_tokens = count_tokens(generation')]
            /\ generated_tokens' = tokens_str
            /\ pc' = "ret"
    /\ UNCHANGED <<frame_vars, now, to_state, compile_status, decoding_status,
                   grammar_compilation_end_time, first_token_arrival_time,
                   local_vars, probe_result, history_vars>>

\* -------------------------------------------------------------- outlines
\* _generate calls _compile_grammar, which enters the compile block
OutlinesStart ==
    /\ engine = "outlines"
    /\ pc = "start"
    /\ to_state' = "EXECUTING"
    /\ pc' = "c_call"
    /\ UNCHANGED <<frame_vars, now, output_vars, local_vars, probe_result,
                   history_vars>>

\* back in _generate: return unless the status is OK, else count the prompt
OutlinesCheck ==
    /\ engine = "outlines"
    /\ pc = "o_check"
    /\ IF compile_status # "OK"
       THEN /\ pc' = "ret"
            /\ UNCHANGED token_usage
       ELSE /\ token_usage' =
                 [token_usage EXCEPT !.input_tokens = count_tokens(Prompt)]
            /\ pc' = "d_enter"
    /\ UNCHANGED <<frame_vars, now, to_state, compile_status, decoding_status,
                   grammar_compilation_end_time, first_token_arrival_time,
                   generation, generated_tokens, local_vars, probe_result,
                   history_vars>>

\* token_iterator = generator.stream(...); tokens_str = []
OutlinesOpen ==
    /\ engine = "outlines"
    /\ pc = "d_open"
    /\ tokens_bound' = TRUE
    /\ tokens_str' = <<>>
    /\ pc' = "d_stream"
    /\ UNCHANGED <<frame_vars, now, to_state, output_vars, chunks_seen,
                   ftat_local, probe_result, history_vars>>

\* one token: the first records first_token_arrival_time, each is appended
OutlinesChunk ==
    /\ engine = "outlines"
    /\ pc = "d_stream"
    /\ chunks_seen < TotalChunks
    /\ IF chunks_seen = 0
       THEN first_token_arrival_time' = now /\ Tick
       ELSE UNCHANGED <<first_token_arrival_time, now>>
    /\ tokens_str' = Append(tokens_str, "t")
    /\ chunks_seen' = chunks_seen + 1
    /\ UNCHANGED <<frame_vars, pc, to_state, compile_status, decoding_status,
                   grammar_compilation_end_time, generation, generated_tokens,
                   token_usage, tokens_bound, ftat_local, probe_result,
                   history_vars>>

\* ----------------------------------------- xgrammar and huggingface share
\* model.generate(...) runs the logits processors once per token; the
\* TimingLogitsProcessor appends time() to its timestamps
TimedModelStep(e) ==
    /\ engine = e
    /\ pc = "d_stream"
    /\ chunks_seen < TotalChunks
    /\ IF chunks_seen = 0
       THEN ftat_local' = now /\ Tick
       ELSE UNCHANGED <<ftat_local, now>>
    /\ chunks_seen' = chunks_seen + 1
    /\ UNCHANGED <<frame_vars, pc, to_state, output_vars, tokens_bound,
                   tokens_str, probe_result, history_vars>>

\* after the block: first_token_arrival_time = timestamps[0] if there is
\* one; then on TIMED_OUT: DECODING_TIMEOUT and return
TimedModelAfterDecode(e) ==
    /\ engine = e
    /\ pc = "d_after"
    /\ first_token_arrival_time' =
         IF chunks_seen > 0 THEN ftat_local ELSE first_token_arrival_time
    /\ IF to_state = "TIMED_OUT"
       THEN /\ decoding_status' = "DECODING_TIMEOUT"
            /\ pc' = "ret"
       ELSE /\ pc' = "finish"
            /\ UNCHANGED decoding_status
    /\ UNCHANGED <<frame_vars, now, to_state, compile_status,
                   grammar_compilation_end_time, generation, generated_tokens,
                   token_usage, local_vars, probe_result, history_vars>>

\* decode the generated sequence, set generation and the output tokens
TimedModelFinish(e) ==
    /\ engine = e
    /\ pc = "finish"
    /\ first_token_arrival_time' =
         IF chunks_seen > 0 THEN ftat_local ELSE first_token_arrival_time
    /\ generation' = GeneratedText
    /\ token_usage' =
         [token_usage EXCEPT !.output_tokens = count_tokens(GeneratedText)]
    /\ pc' = "ret"
    /\ UNCHANGED <<frame_vars, now, to_state, compile_status, decoding_status,
                   grammar_compilation_end_time, generated_tokens, local_vars,
                   probe_result, history_vars>>

\* -------------------------------------------------------------- xgrammar
\* the probe compiles the schema in a forked child first; any failure of
\* the child gives UNSUPPORTED_SCHEMA (exit code 2, the alarm, included)
XGrammarProbe ==
    /\ engine = "xgrammar"
    /\ pc = "start"
    /\ LET seg_fault_check == XGrammarCheckGrammarSafety(ChildStatus(env.compile))
       IN  IF ~seg_fault_check.success
           THEN /\ compile_status' = "UNSUPPORTED_SCHEMA"
                /\ probe_result' = "fail"
                /\ failed_probes' = failed_probes \cup {env.compile}
                /\ pc' = "ret"
                /\ UNCHANGED to_state
           ELSE /\ probe_result' = "ok"
                /\ to_state' = "EXECUTING"
                /\ pc' = "c_call"
                /\ UNCHANGED <<compile_status, failed_probes>>
    /\ UNCHANGED <<frame_vars, now, decoding_status,
                   grammar_compilation_end_time, first_token_arrival_time,
                   generation, generated_tokens, token_usage, local_vars,
                   decode_entered, stream_failed>>

\* ----------------------------------------------------------- huggingface
\* no compilation step: the end time and CompileStatus OK are set at once
HuggingFaceStart ==
    /\ engine = "huggingface"
    /\ pc = "start"
    /\ grammar_compilation_end_time' = now
    /\ Tick
    /\ compile_status' = "OK"
    /\ pc' = "d_enter"
    /\ UNCHANGED <<frame_vars, to_state, decoding_status,
                   first_token_arrival_time, generation, generated_tokens,
                   token_usage, local_vars, probe_result, history_vars>>

\* ------------------------------------------ openai (and gemini, inherited)
\* client.chat.completions.create(...): a failure of the request gives
\* UNSUPPORTED_SCHEMA; otherwise tokens_str = [] and the stream is read
OpenAIRequest ==
    /\ engine \in OpenAIFamily
    /\ pc = "start"
    /\ IF env.request = "raise"
       THEN /\ compile_status' = "UNSUPPORTED_SCHEMA"
            /\ pc' = "ret"
            /\ UNCHANGED <<tokens_bound, tokens_str, decode_entered>>
       ELSE /\ tokens_bound' = TRUE
            /\ tokens_str' = <<>>
            /\ decode_entered' = TRUE
            /\ pc' = "d_stream"
            /\ UNCHANGED compile_status
    /\ UNCHANGED <<frame_vars, now, to_state, decoding_status,
                   grammar_compilation_end_time, first_token_arrival_time,
                   generation, generated_tokens, token_usage, chunks_seen,
                   ftat_local, probe_result, stream_failed, failed_probes>>

\* one chunk of the response: the first sets the local
\* first_token_arrival_time, a chunk with content is appended
ApiChunk(e) ==
    /\ engine = e
    /\ pc = "d_stream"
    /\ chunks_seen < TotalChunks
    /\ IF chunks_seen = 0
       THEN ftat_local' = now /\ Tick
       ELSE UNCHANGED <<ftat_local, now>>
    /\ tokens_str' = IF chunks_seen < env.nchunks
                     THEN Append(tokens_str, "t") ELSE tokens_str
    /\ chunks_seen' = chunks_seen + 1
    /\ UNCHANGED <<frame_vars, pc, to_state, output_vars, tokens_bound,
                   probe_result, history_vars>>

\* after the loop: chunk.usage.completion_tokens, the timestamp, both
\* statuses OK, the generation.  `chunk` and the local timestamp are unbound
\* when the stream held no chunk, and chunk.usage is None unless the last
\* chunk is the closing usage chunk: both raise out of _generate
ApiFinish(e) ==
    /\ engine = e
    /\ pc = "d_stream"
    /\ chunks_seen = TotalChunks
    /\ env.stream_end = "end"
    /\ IF chunks_seen = 0 \/ ~env.final
       THEN /\ pc' = "raised"
            /\ UNCHANGED output_vars
       ELSE /\ token_usage' = [token_usage EXCEPT !.output_tokens = env.nchunks]
            /\ first_token_arrival_time' = ftat_local
            /\ compile_status' = "OK"
            /\ decoding_status' = "OK"
            /\ generation' = join(tokens_str)
            /\ generated_tokens' = tokens_str
            /\ pc' = "ret"
            /\ UNCHANGED grammar_compilation_end_time
    /\ UNCHANGED <<frame_vars, now, to_state, local_vars, probe_result,
                   history_vars>>

OpenAIChunk == \E e \in OpenAIFamily : ApiChunk(e)
OpenAIFinish == \E e \in OpenAIFamily : ApiFinish(e)

\* the response iterator raises while the loop reads it: the loop is in no
\* try, the error leaves _generate.  (No timeout guards the loop: a stalled
\* stream leaves the lifecycle waiting.)
OpenAIStreamError ==
    /\ engine \in OpenAIFamily
    /\ pc = "d_stream"
    /\ chunks_seen = TotalChunks
    /\ env.stream_end = "raise"
    /\ stream_failed' = TRUE
    /\ pc' = "raised"
    /\ UNCHANGED <<frame_vars, now, to_state, output_vars, local_vars,
                   probe_result, decode_entered, failed_probes>>

\* ----------------------------------------------------- openai_compatible
OpenAICompatibleRequest ==
    /\ engine = "openai_compatible"
    /\ pc = "start"
    /\ IF env.request = "raise"
       THEN /\ compile_status' = "UNSUPPORTED_SCHEMA"
            /\ pc' = "ret"
            /\ UNCHANGED <<tokens_bound, tokens_str, decode_entered>>
       ELSE /\ tokens_bound' = TRUE
            /\ tokens_str' = <<>>
            /\ decode_entered' = TRUE
            /\ pc' = "d_stream"
            /\ UNCHANGED compile_status
    /\ UNCHANGED <<frame_vars, now, to_state, decoding_status,
                   grammar_compilation_end_time, first_token_arrival_time,
                   generation, generated_tokens, token_usage, chunks_seen,
                   ftat_local, probe_result, stream_failed, failed_probes>>

\* the response iterator raises inside the try around the loop (a backend
\* error, or the client's TIMEOUT on a stalled stream): the except clause
\* sets CompileStatus API_BAD_RESPONSE and returns
OpenAICompatibleStreamError ==
    /\ engine = "openai_compatible"
    /\ pc = "d_stream"
    /\ chunks_seen = TotalChunks
    /\ env.stream_end \in {"raise", "hang"}
    /\ stream_failed' = TRUE
    /\ compile_status' = "API_BAD_RESPONSE"
    /\ pc' = "ret"
    /\ UNCHANGED <<frame_vars, now, to_state, decoding_status,
                   grammar_compilation_end_time, first_token_arrival_time,
                   generation, generated_tokens, token_usage, local_vars,
                   probe_result, decode_entered, failed_probes>>

\* ------------------------------------------------------------- lifecycle
GuidanceGenerate ==
    \/ GuidanceStart \/ CompileCall("guidance") \/ CompileStamp("guidance")
    \/ CompileOk("guidance") \/ CompileExit("guidance") \/ CompileTimeout("guidance")
    \/ AfterCompile("guidance", "d_enter") \/ DecodeEnter("guidance", "d_stream") \/ GuidanceChunk
    \/ DecodeEnd("guidance", "d_exit") \/ DecodeRaise("guidance") \/ DecodeExit("guidance")
    \/ DecodeTimeout("guidance") \/ GuidanceAfterDecode \/ GuidanceExtract

LlamaCppGenerate ==
    \/ LlamaCppStart \/ CompileCall("llama_cpp") \/ CompileStamp("llama_cpp")
    \/ CompileOk("llama_cpp") \/ CompileExit("llama_cpp") \/ CompileTimeout("llama_cpp")
    \/ AfterCompile("llama_cpp", "probe") \/ LlamaCppProbe \/ DecodeEnter("llama_cpp", "d_open")
    \/ LlamaCppOpen \/ LlamaCppChunk \/ DecodeEnd("llama_cpp", "d_ok")
    \/ DecodeRaise("llama_cpp") \/ DecodeOk("llama_cpp") \/ DecodeExit("llama_cpp")
    \/ DecodeTimeout("llama_cpp") \/ TokenListAfterDecode("llama_cpp") \/ TokenListFinish("llama_cpp")

OutlinesGenerate ==
    \/ OutlinesStart \/ CompileCall("outlines") \/ CompileStamp("outlines")
    \/ CompileOk("outlines") \/ CompileExit("outlines") \/ CompileTimeout("outlines")
    \/ AfterCompile("outlines", "o_check") \/ OutlinesCheck \/ DecodeEnter("outlines", "d_open")
    \/ OutlinesOpen \/ OutlinesChunk \/ DecodeEnd("outlines", "d_ok")
    \/ DecodeRaise("outlines") \/ DecodeOk("outlines") \/ DecodeExit("outlines")
    \/ DecodeTimeout("outlines") \/ TokenListAfterDecode("outlines") \/ TokenListFinish("outlines")

XGrammarGenerate ==
    \/ XGrammarProbe \/ CompileCall("xgrammar") \/ CompileStamp("xgrammar")
    \/ CompileOk("xgrammar") \/ CompileExit("xgrammar") \/ CompileTimeout("xgrammar")
    \/ AfterCompile("xgrammar", "d_enter") \/ DecodeEnter("xgrammar", "d_stream") \/ TimedModelStep("xgrammar")
    \/ DecodeEnd("xgrammar", "d_ok") \/ DecodeRaise("xgrammar") \/ DecodeOk("xgrammar")
    \/ DecodeExit("xgrammar") \/ DecodeTimeout("xgrammar") \/ TimedModelAfterDecode("xgrammar")
    \/ TimedModelFinish("xgrammar")

HuggingFaceGenerate ==
    \/ HuggingFaceStart \/ DecodeEnter("huggingface", "d_stream") \/ TimedModelStep("huggingface")
    \/ DecodeEnd("huggingface", "d_ok") \/ DecodeRaise("huggingface") \/ DecodeOk("huggingface")
    \/ DecodeExit("huggingface") \/ DecodeTimeout("huggingface")
    \/ TimedModelAfterDecode("huggingface") \/ TimedModelFinish("huggingface")

OpenAIGenerate ==
    \/ OpenAIRequest \/ OpenAIChunk \/ OpenAIFinish \/ OpenAIStreamError

OpenAICompatibleGenerate ==
    \/ OpenAICompatibleRequest \/ ApiChunk("openai_compatible")
    \/ ApiFinish("openai_compatible") \/ OpenAICompatibleStreamError

Next ==
    \/ BenchStart
    \/ Generate
    \/ Evaluate
    \/ GuidanceGenerate
    \/ LlamaCppGenerate
    \/ OutlinesGenerate
    \/ XGrammarGenerate
    \/ HuggingFaceGenerate
    \/ OpenAIGenerate
    \/ OpenAICompatibleGenerate
    \/ Return

Spec == Init /\ [][Next]_vars

\* ========================================================================
\* The evaluator: src/core/evaluator.py and bootstrap of src/core/utils.py
\* ========================================================================
\* generation outputs evaluate is called with
MaxOutputs == 2
\* resamples bootstrap draws (its n_samples parameter, 100 by default)
n_samples == 2

\* Numbers of the evaluator are rationals num/den, NaN (what numpy returns
\* for the mean, median and std of an empty list) or absent (None).
Num(n, d) == [kind |-> "num", num |-> n, den |-> d]
NaN == [kind |-> "nan", num |-> 0, den |-> 0]
Absent == [kind |-> "none", num |-> 0, den |-> 0]
Int2Num(i) == Num(i, 1)

RECURSIVE SumSeq(_)
SumSeq(xs) == IF xs = <<>> THEN 0 ELSE Head(xs) + SumSeq(Tail(xs))

RECURSIVE SumSquares(_)
SumSquares(xs) ==
    IF xs = <<>> THEN 0 ELSE Head(xs) * Head(xs) + SumSquares(Tail(xs))

SelectSeqIdx(xs, keep(_)) ==
    LET F[i \in 0..Len(xs)] ==
          IF i = 0 THEN <<>>
          ELSE IF keep(i) THEN Append(F[i - 1], xs[i]) ELSE F[i - 1]
    IN  F[Len(xs)]

Less(a, b) == a.num * b.den < b.num * a.den

\* the values in ascending order (the order np.median sorts them into)
RECURSIVE Sorted(_)
Insert(x, xs) ==
    LET k == Cardinality({i \in 1..Len(xs) : ~Less(x, xs[i])})
    IN  SubSeq(xs, 1, k) \o <<x>> \o SubSeq(xs, k + 1, Len(xs))
Sorted(xs) == IF xs = <<>> THEN <<>> ELSE Insert(Head(xs), Sorted(Tail(xs)))

HasNaN(xs) == \E i \in 1..Len(xs) : xs[i].kind = "nan"

\* the sum without the division by the length
np_mean_NoDivide(xs) ==
    IF xs = <<>> THEN NaN ELSE Num(SumSeq(xs), 1)

\* np.mean of a list of integers: NaN (with a warning) on the empty list
np_mean(xs) ==
    IF xs = <<>> THEN NaN ELSE Num(SumSeq(xs), Len(xs))

\* np.median: NaN on an empty list or on NaN values
np_median(xs) ==
    IF xs = <<>> \/ HasNaN(xs) THEN NaN
    ELSE LET srt == Sorted(xs)
             n == Len(xs)
             lo == srt[(n + 1) \div 2]
             hi == srt[(n \div 2) + 1]
         IN  IF n % 2 = 1 THEN lo
             ELSE Num(lo.num * hi.den + hi.num * lo.den, 2 * lo.den * hi.den)

\* np.std, kept as its square (the variance); the values of one list share
\* their denominator.  NaN on an empty list or on NaN values
np_std(xs) ==
    IF xs = <<>> \/ HasNaN(xs) THEN NaN
    ELSE LET nums == [i \in 1..Len(xs) |-> xs[i].num]
             n == Len(xs)
             d == xs[1].den
         IN  Num(n * SumSquares(nums) - SumSeq(nums) * SumSeq(nums),
                 n * n * d * d)

\* the builtin min / max: ValueError on an empty list; the first element
\* when nothing compares smaller / greater (a list of NaN gives NaN)
Raises == [kind |-> "raise", num |-> 0, den |-> 0]

py_min(xs) ==
    IF xs = <<>> THEN Raises
    ELSE IF HasNaN(xs) THEN xs[1]
    ELSE xs[CHOOSE i \in 1..Len(xs) :
               /\ \A j \in 1..Len(xs) : ~Less(xs[j], xs[i])
               /\ \A j \in 1..(i - 1) : Less(xs[i], xs[j])]

py_max(xs) ==
    IF xs = <<>> THEN Raises
    ELSE IF HasNaN(xs) THEN xs[1]
    ELSE xs[CHOOSE i \in 1..Len(xs) :
               /\ \A j \in 1..Len(xs) : ~Less(xs[i], xs[j])
               /\ \A j \in 1..(i - 1) : Less(xs[j], xs[i])]

\* Metric(): the dataclass defaults
EmptyMetric ==
    [values |-> <<>>, std |-> Absent, min |-> Absent, max |-> Absent,
     median |-> Absent]

\* Metric(values=xs, median=np.median(xs), min=min(xs), max=max(xs),
\* std=np.std(xs)) as evaluate builds it
MakeMetric(xs) ==
    [values |-> xs, std |-> np_std(xs), min |-> py_min(xs),
     max |-> py_max(xs), median |-> np_median(xs)]

\* min(xs) and max(xs) raise exactly on the empty list
MetricRaises(xs) == xs = <<>>

\* format_metric: "n/a" when a summary field is None, else the formatted
\* median and std (float formatting prints a NaN as "nan")
format_metric(metric) ==
    IF \/ metric.median = Absent
       \/ metric.std = Absent
       \/ metric.min = Absent
       \/ metric.max = Absent
    THEN "n/a"
    ELSE IF metric.median.kind = "nan" THEN "nan" ELSE "number"

\* resamples of one element more than the data
Resamples_WrongSize(data) ==
    [1..(Len(data) + 1) -> {data[i] : i \in 1..Len(data)}]

\* random.choices(data, k=len(data)): every resample with replacement
Resamples(data) == [1..Len(data) -> {data[i] : i \in 1..Len(data)}]

\* bootstrap(data, np.mean): n_samples resample means, any draws.  The
\* iterations draw independently, so every reordering of a returned list is
\* a possible return as well, and evaluate uses the list only through
\* np.median, min, max and np.std, which do not depend on the order: one
\* list of each reordering class is kept, the ascending one.
Bootstraps(data) ==
    {f \in [1..n_samples -> {np_mean(r) : r \in Resamples(data)}] :
        \A i \in 1..n_samples : \A j \in i..n_samples : ~Less(f[j], f[i])}

\* loads(generation) and validate_json_schema on a sample, as classes of
\* (generation, schema) pairs: the generation is None, does not parse,
\* parses to a value that is no instance of the schema, or parses to one
Gens == {"none", "notjson", "invalid", "valid"}

EvalOutput(c, g, sn, ot, ttft, tpot, tgt, gct) ==
    [compile |-> c, gen |-> g, schema_none |-> sn, output_tokens |-> ot,
     ttft |-> ttft, tpot |-> tpot, tgt |-> tgt, gct |-> gct]

\* the generation outputs evaluate is run on: what the lifecycles return
\* (a failed compile leaves the generation empty and the first token time
\* absent) and records with an absent schema or generation
SampleOutputs ==
    {EvalOutput("OK", "valid", FALSE, 2, 1, 1000, 3, 1),
     EvalOutput("OK", "valid", FALSE, 1, 1, None, 2, None),
     EvalOutput("OK", "invalid", FALSE, 1, None, None, 2, 1),
     EvalOutput("OK", "notjson", FALSE, 0, None, None, 2, 1),
     EvalOutput("UNSUPPORTED_SCHEMA", "notjson", FALSE, 0, None, None, 1, None),
     EvalOutput("TBD", "valid", FALSE, 1, 1, None, 2, None),
     EvalOutput("OK", "none", FALSE, 0, None, None, 1, 1),
     EvalOutput("OK", "valid", TRUE, 1, 1, None, 2, 1)}

RECURSIVE SeqsUpTo(_, _)
SeqsUpTo(S, n) ==
    IF n = 0 THEN {<<>>}
    ELSE LET shorter == SeqsUpTo(S, n - 1)
         IN  shorter \cup {Append(q, x) : q \in shorter, x \in S}

EvStart(outs) ==
    [pc |-> "loop", outputs |-> outs, i |-> 1,
     output_tokens_list |-> <<>>, declared_coverage_list |-> <<>>,
     empirical_coverage_list |-> <<>>,
     ttft_list |-> <<>>, tpot_list |-> <<>>, tgt_list |-> <<>>,
     gct_list |-> <<>>, compliance_list |-> <<>>,
     dc_mean_list |-> <<>>, ec_mean_list |-> <<>>, c_mean_list |-> <<>>,
     result |-> <<>>]

InitEval ==
    /\ engine = "openai_compatible"
    /\ sample = 0
    /\ pc = "idle"
    /\ env = DefaultEnv
    /\ now = 0
    /\ gen_start_time = 0
    /\ to_state = "EXECUTED"
    /\ compile_status = "TBD"
    /\ decoding_status = "TBD"
    /\ grammar_compilation_end_time = None
    /\ first_token_arrival_time = None
    /\ generation = <<>>
    /\ generated_tokens = <<>>
    /\ token_usage = TokenUsage
    /\ perf_metrics = NoPerfMetrics
    /\ total_usage = TokenUsage
    /\ tokens_bound = FALSE
    /\ tokens_str = <<>>
    /\ chunks_seen = 0
    /\ ftat_local = None
    /\ probe_result = "none"
    /\ decode_entered = FALSE
    /\ stream_failed = FALSE
    /\ failed_probes = {}
    /\ ev \in {EvStart(outs) : outs \in SeqsUpTo(SampleOutputs, MaxOutputs)}
    /\ BenchIdle
    /\ RunnerIdle
    /\ SinkIdle
    /\ ToolIdle

\* `schema is None or generation is None`: the sample is passed over
skipped(o) == o.schema_none \/ o.gen = "none"

\* the declared-coverage bit: 1 when CompileStatus.code is OK, else 0
declared_bit(o) == IF o.compile = "OK" THEN 1 ELSE 0

\* loads(generation) returns (it raises on text that is no JSON)
loads_ok(o) == o.gen \in {"invalid", "valid"}

\* validate_json_schema(json_object, schema) on the parsed generation
validate_json_schema(o) == o.gen = "valid"

\* the bit when the schema validation is left out
empirical_bit_ParseOnly(o) == IF ~loads_ok(o) THEN 0 ELSE 1

\* the empirical-coverage bit: 0 from the except around loads, 0 when the
\* validation fails, 1 otherwise
empirical_bit(o) ==
    IF ~loads_ok(o) THEN 0
    ELSE IF ~validate_json_schema(o) THEN 0
    ELSE 1

\* the iteration with the declared bit appended before the None check
EvalSample_TallyBeforeSkip ==
    /\ ev.pc = "loop"
    /\ ev.i <= Len(ev.outputs)
    /\ LET o == ev.outputs[ev.i]
       IN  ev' =
             IF skipped(o)
             THEN [ev EXCEPT !.i = @ + 1,
                             !.declared_coverage_list =
                                Append(@, declared_bit(o))]
             ELSE IF empirical_bit(o) = 0
             THEN [ev EXCEPT !.i = @ + 1,
                             !.declared_coverage_list =
                                Append(@, declared_bit(o)),
                             !.empirical_coverage_list = Append(@, 0)]
             ELSE [ev EXCEPT !.i = @ + 1,
                             !.declared_coverage_list =
                                Append(@, declared_bit(o)),
                             !.empirical_coverage_list = Append(@, 1),
                             !.output_tokens_list = Append(@, o.output_tokens)]
    /\ UNCHANGED <<lifecycle_vars, bench_vars, runner_vars, tool_vars, sink_vars>>

\* one iteration of `for generation_output in outputs`
EvalSample ==
    /\ ev.pc = "loop"
    /\ ev.i <= Len(ev.outputs)
    /\ LET o == ev.outputs[ev.i]
       IN  ev' =
             IF skipped(o)
             THEN [ev EXCEPT !.i = @ + 1]
             ELSE IF empirical_bit(o) = 0
             THEN [ev EXCEPT !.i = @ + 1,
                             !.declared_coverage_list =
                                Append(@, declared_bit(o)),
                             !.empirical_coverage_list = Append(@, 0)]
             ELSE [ev EXCEPT !.i = @ + 1,
                             !.declared_coverage_list =
                                Append(@, declared_bit(o)),
                             !.empirical_coverage_list = Append(@, 1),
                             !.output_tokens_list = Append(@, o.output_tokens)]
    /\ UNCHANGED <<lifecycle_vars, bench_vars, runner_vars, tool_vars, sink_vars>>

\* the pool when the filter on the declared bit is left out
zip_compliance_NoFilter(ecl, dcl) == ecl

\* [ec for ec, dc in zip(empirical_coverage_list, declared_coverage_list)
\*  if dc == 1]: zip stops at the shorter list
zip_compliance(ecl, dcl) ==
    LET zipped == IF Len(ecl) < Len(dcl) THEN Len(ecl) ELSE Len(dcl)
    IN  SelectSeqIdx(SubSeq(ecl, 1, zipped), LAMBDA i : dcl[i] = 1)

\* [o.perf_metrics.<f> for o in outputs if o.perf_metrics.<f> is not None]
perf_list(outs, f(_)) ==
    LET kept == SelectSeqIdx(outs, LAMBDA i : f(outs[i]) # None)
    IN  [i \in 1..Len(kept) |-> f(kept[i])]

\* the four perf lists (absent values filtered out) and the compliance list
EvalLists ==
    /\ ev.pc = "loop"
    /\ ev.i > Len(ev.outputs)
    /\ ev' = [ev EXCEPT
                !.pc = "bootstrap",
                !.ttft_list = perf_list(ev.outputs, LAMBDA o : o.ttft),
                !.tpot_list = perf_list(ev.outputs, LAMBDA o : o.tpot),
                !.tgt_list = perf_list(ev.outputs, LAMBDA o : o.tgt),
                !.gct_list = perf_list(ev.outputs, LAMBDA o : o.gct),
                !.compliance_list =
                   zip_compliance(ev.empirical_coverage_list,
                                  ev.declared_coverage_list)]
    /\ UNCHANGED <<lifecycle_vars, bench_vars, runner_vars, tool_vars, sink_vars>>

\* the three bootstrap calls
EvalBootstrap ==
    /\ ev.pc = "bootstrap"
    /\ \E dc \in Bootstraps(ev.declared_coverage_list),
          ec \in Bootstraps(ev.empirical_coverage_list),
          c \in Bootstraps(ev.compliance_list) :
          ev' = [ev EXCEPT !.pc = "metrics", !.dc_mean_list = dc,
                           !.ec_mean_list = ec, !.c_mean_list = c]
    /\ UNCHANGED <<lifecycle_vars, bench_vars, runner_vars, tool_vars, sink_vars>>

\* the returned tuple; the first min() of an empty list raises ValueError
EvalReturn ==
    /\ ev.pc = "metrics"
    /\ LET nums(xs) == [i \in 1..Len(xs) |-> Int2Num(xs[i])]
           lists == <<ev.dc_mean_list, ev.ec_mean_list, ev.c_mean_list,
                      nums(ev.ttft_list), nums(ev.tpot_list),
                      nums(ev.tgt_list), nums(ev.gct_list),
                      nums(ev.output_tokens_list)>>
       IN  IF \E k \in 1..Len(lists) : MetricRaises(lists[k])
           THEN ev' = [ev EXCEPT !.pc = "raised"]
           ELSE ev' = [ev EXCEPT
                         !.pc = "returned",
                         !.result =
                            <<MakeMetric(lists[1]), MakeMetric(lists[2]),
                              MakeMetric(lists[3]),
                              [ttft |-> MakeMetric(lists[4]),
                               tpot |-> MakeMetric(lists[5]),
                               tgt |-> MakeMetric(lists[6]),
                               gct |-> MakeMetric(lists[7]),
                               prft |-> EmptyMetric],
                              MakeMetric(lists[8])>>]
    /\ UNCHANGED <<lifecycle_vars, bench_vars, runner_vars, tool_vars, sink_vars>>

NextEval == EvalSample \/ EvalLists \/ EvalBootstrap \/ EvalReturn

SpecEval == InitEval /\ [][NextEval]_vars

\* ========================================================================
\* The profiling wrapper on its own: PerfMetrics.from_timestamps on every
\* combination of timestamps (src/core/profile.py, src/core/types.py)
\* ========================================================================
\* latest clock reading, in steps of two
MaxTime == 3
\* largest output token count of a sample
MaxTokens == 3

\* clock readings; even, so that no difference of two readings is the value
\* standing for None
Times == {2 * k : k \in 0..MaxTime}

\* generate has returned to the wrapper with any timestamps in the metadata
\* (each absent, or a reading taken between the wrapper's two readings of
\* the clock) and any token count; the wrapper calls
\* PerfMetrics.from_timestamps
InitPerf ==
    /\ engine = "guidance"
    /\ sample = 1
    /\ pc = "ret"
    /\ env = DefaultEnv
    /\ now \in Times
    /\ gen_start_time \in Times
    /\ to_state = "EXECUTED"
    /\ compile_status = "TBD"
    /\ decoding_status = "TBD"
    /\ gen_start_time <= now
    /\ grammar_compilation_end_time \in
          {t \in Times : gen_start_time <= t /\ t <= now} \cup {None}
    /\ first_token_arrival_time \in
          {t \in Times : gen_start_time <= t /\ t <= now} \cup {None}
    /\ generation = <<>>
    /\ generated_tokens = <<>>
    /\ token_usage \in {[input_tokens |-> 0, output_tokens |-> n] :
                          n \in 0..MaxTokens}
    /\ perf_metrics = NoPerfMetrics
    /\ total_usage = TokenUsage
    /\ tokens_bound = FALSE
    /\ tokens_str = <<>>
    /\ chunks_seen = 0
    /\ ftat_local = None
    /\ probe_result = "none"
    /\ decode_entered = FALSE
    /\ stream_failed = FALSE
    /\ failed_probes = {}
    /\ ev = EvIdle
    /\ BenchIdle
    /\ RunnerIdle
    /\ SinkIdle
    /\ ToolIdle

NextPerf == Return

SpecPerf == InitPerf /\ [][NextPerf]_vars

\* ========================================================================
\* Properties of the generation lifecycle (Spec)
\* ========================================================================
\* _generate has returned (pc = "ret") or Engine.generate has (pc = "idle",
\* or "aborted" once bench has gone on to evaluate)
Returned == sample > 0 /\ pc \in {"ret", "idle", "aborted"}

\* Engine.generate has returned the output, perf metrics included
Generated == sample > 0 /\ pc = "idle"

\* C1: once CompileStatus holds an outcome other than OK, the lifecycle is at
\* its return, DecodingStatus is TBD, first_token_arrival_time is absent and
\* the generation is empty; when that outcome is the compile stage's (a
\* caught failure, a failed probe, a compile timeout: no stream was read and
\* failed) the decode stage was never entered.
C1_FailedCompileSkipsDecode ==
    compile_status \notin {"TBD", "OK"} =>
        /\ Returned
        /\ decoding_status = "TBD"
        /\ first_token_arrival_time = None
        /\ generation = <<>>
        /\ ~stream_failed => ~decode_entered

C1_Witness ==
    /\ Generated
    /\ env.compile = "hang"
    /\ compile_status = "COMPILE_TIMEOUT"
    /\ decoding_status = "TBD"

\* C2: for every engine with a compile stage, a compile step that never
\* returns ends with CompileStatus COMPILE_TIMEOUT and the decode stage is
\* never reached.
C2_CompileHangGivesCompileTimeout ==
    (Returned /\ engine \in CompilingEngines /\ env.compile = "hang") =>
        /\ compile_status = "COMPILE_TIMEOUT"
        /\ ~decode_entered

\* C3: whenever the decode stage ended with DECODING_TIMEOUT, the returned
\* output has no first_token_arrival_time, so no ttft, tpot or prft.
C3_TimeoutUnsetsFirstToken ==
    (Generated /\ decoding_status = "DECODING_TIMEOUT") =>
        /\ first_token_arrival_time = None
        /\ perf_metrics.ttft = None
        /\ perf_metrics.tpot = None
        /\ perf_metrics.prft = None

\* C4: Engine.generate never raises to its caller.
C4_GenerateNeverRaises == pc # "raised"

\* C5: within one generation attempt a status that has left TBD is never
\* assigned a different code.
C5_StatusAssignedOnce ==
    [][sample' = sample =>
         /\ compile_status # "TBD" => compile_status' = compile_status
         /\ decoding_status # "TBD" => decoding_status' = decoding_status]_vars

\* C6: when the decode stage timed out, the returned output has an empty
\* generation, no generated tokens and an output token count of 0.
C6_TimeoutDiscardsTokens ==
    (Generated /\ decoding_status = "DECODING_TIMEOUT") =>
        /\ generation = <<>>
        /\ generated_tokens = <<>>
        /\ token_usage.output_tokens = 0

\* C7: a decode step that never completes ends with DecodingStatus
\* DECODING_TIMEOUT and the lifecycle returns.
C7_DecodeHangGivesDecodingTimeout ==
    (decode_entered /\ env.stream_end = "hang"
       /\ pc \in {"ret", "idle", "raised"}) =>
        /\ decoding_status = "DECODING_TIMEOUT"
        /\ pc # "raised"

\* the child of the probe was killed by a signal or exited non-zero
ChildFailed ==
    LET status == ChildStatus(IF engine = "llama_cpp" THEN env.probe
                              ELSE env.compile)
    IN  status.signaled \/ (status.exited /\ status.code # 0)

\* C8: when the probe's child is killed by a signal or exits non-zero, the
\* parent sets UNSUPPORTED_SCHEMA and returns without decoding, and the
\* parent process never goes down.
C8_ProbeFailureIsolated ==
    /\ pc # "crashed"
    /\ (probe_result # "none" /\ ChildFailed) =>
          /\ probe_result = "fail"
          /\ Returned
          /\ compile_status = "UNSUPPORTED_SCHEMA"
          /\ decoding_status = "TBD"
          /\ ~decode_entered

\* a probe's child was killed by a signal, and the worker has since run a
\* later sample through to a decoded output
C8_Witness ==
    /\ "crash" \in failed_probes
    /\ sample > 1
    /\ pc = "ret"
    /\ probe_result = "ok"
    /\ decoding_status = "OK"

\* C9: a backend failure while the response is streamed is recorded on
\* DecodingStatus, not on CompileStatus.
C9_StreamFailureOnDecodingStatus ==
    (Returned /\ stream_failed) =>
        /\ decoding_status \notin {"TBD", "OK"}
        /\ compile_status \in {"TBD", "OK"}

\* ========================================================================
\* Properties of the evaluator (SpecEval)
\* ========================================================================
IsEmptyMetric(m) == m = EmptyMetric

\* C10: evaluate([]) returns without raising and every Metric it returns
\* has empty values and absent summary fields.
C10_EvaluateEmptyReturnsEmptyMetrics ==
    (ev.pc \in {"returned", "raised"} /\ ev.outputs = <<>>) =>
        /\ ev.pc = "returned"
        /\ IsEmptyMetric(ev.result[1])
        /\ IsEmptyMetric(ev.result[2])
        /\ IsEmptyMetric(ev.result[3])
        /\ \A f \in {"ttft", "tpot", "tgt", "gct", "prft"} :
              IsEmptyMetric(ev.result[4][f])
        /\ IsEmptyMetric(ev.result[5])

\* the pools evaluate summarises, each paired with the Metric returned for it
PoolMetrics ==
    <<<<ev.ttft_list, ev.result[4].ttft>>,
      <<ev.tpot_list, ev.result[4].tpot>>,
      <<ev.gct_list, ev.result[4].gct>>,
      <<ev.output_tokens_list, ev.result[5]>>,
      <<ev.compliance_list, ev.result[3]>>>>

EvalDone == ev.pc \in {"returned", "raised"}

SomePoolEmpty ==
    \/ ev.ttft_list = <<>> \/ ev.tpot_list = <<>> \/ ev.gct_list = <<>>
    \/ ev.output_tokens_list = <<>> \/ ev.compliance_list = <<>>

\* C11: for a non-empty outputs list in which some pool is empty, evaluate
\* returns without raising, and the Metric of each empty pool has empty
\* values and absent summary fields, which format_metric renders as "n/a".
C11_EmptyPoolGivesEmptyMetric ==
    (EvalDone /\ ev.outputs # <<>> /\ SomePoolEmpty) =>
        /\ ev.pc = "returned"
        /\ \A k \in 1..5 :
              PoolMetrics[k][1] = <<>> =>
                 /\ IsEmptyMetric(PoolMetrics[k][2])
                 /\ format_metric(PoolMetrics[k][2]) = "n/a"

\* the outputs the loop of evaluate has gone through, and among them those
\* with a schema and a generation (the ones the coverage lists tally)
Processed == SubSeq(ev.outputs, 1, ev.i - 1)
Tallied == SelectSeq(Processed, LAMBDA o : ~(o.schema_none \/ o.gen = "none"))
Compiled(o) == o.compile = "OK"
ParsesAndValidates(o) == o.gen = "valid"
CountOf(xs, P(_)) == Cardinality({k \in 1..Len(xs) : P(xs[k])})
\* the loop is running, or the lists are complete and about to be resampled
InLoop == ev.pc = "loop"
ListsBuilt == ev.pc = "bootstrap"

\* C12: a tallied sample whose CompileStatus is not OK (TBD included)
\* contributes 0 to declared coverage; the compliance pool is the
\* subsequence of empirical bits of the samples whose declared bit is 1, its
\* length the number of compiled samples and its sum the number of samples
\* that compiled and are valid.
C12_CompliancePoolIsCompiledSamples ==
    /\ (InLoop \/ ListsBuilt) =>
          /\ Len(ev.declared_coverage_list) = Len(Tallied)
          /\ \A k \in 1..Len(Tallied) :
                ~Compiled(Tallied[k]) => ev.declared_coverage_list[k] = 0
    /\ ListsBuilt =>
          /\ ev.compliance_list =
                SelectSeqIdx(ev.empirical_coverage_list,
                             LAMBDA k : ev.declared_coverage_list[k] = 1)
          /\ Len(ev.compliance_list) = CountOf(Tallied, Compiled)
          /\ SumSeq(ev.compliance_list) =
                CountOf(Tallied,
                        LAMBDA o : Compiled(o) /\ ParsesAndValidates(o))

C12_Witness ==
    /\ ev.pc = "bootstrap"
    /\ Len(ev.outputs) = 2
    /\ ev.outputs[1].compile = "OK"
    /\ ev.outputs[2].compile = "UNSUPPORTED_SCHEMA"
    /\ ev.declared_coverage_list = <<1, 0>>
    /\ ev.compliance_list = <<1>>

C16_CoverageListsAligned ==
    /\ (InLoop \/ ListsBuilt) =>
          /\ Len(ev.declared_coverage_list) = Len(ev.empirical_coverage_list)
          /\ Len(ev.empirical_coverage_list) =
                Len(Processed)
                  - CountOf(Processed,
                            LAMBDA o : o.schema_none \/ o.gen = "none")
          /\ \A k \in 1..Len(ev.declared_coverage_list) :
                /\ k <= Len(Tallied)
                /\ ev.declared_coverage_list[k] = 1 <=> Compiled(Tallied[k])
                /\ ev.empirical_coverage_list[k] = 1
                      <=> ParsesAndValidates(Tallied[k])
    /\ ListsBuilt =>
          ev.compliance_list =
             LET compiled == SelectSeq(Tallied, Compiled)
             IN  [j \in 1..Len(compiled) |->
                    IF ParsesAndValidates(compiled[j]) THEN 1 ELSE 0]

C16_Witness ==
    /\ ev.pc = "bootstrap"
    /\ Len(ev.outputs) = 2
    /\ ev.outputs[1].gen = "none"
    /\ ev.outputs[2].gen = "valid" /\ ~ev.outputs[2].schema_none
    /\ ev.declared_coverage_list = <<1>>
    /\ ev.empirical_coverage_list = <<1>>

\* the failure_type the annotation of an output should carry
FailureType(o) ==
    IF o.schema_none \/ o.gen = "none" THEN "Empty generation or schema"
    ELSE IF o.gen = "notjson" THEN "Generation is not json parsable"
    ELSE "Generated json is not instance of the provided schema"

\* C14: after evaluate every output carries a failure annotation:
\* failure = false exactly when its empirical bit is 1, otherwise
\* failure = true with the failure_type of its case.
C14_OutputsCarryFailureAnnotation ==
    ev.pc = "returned" =>
        \A i \in 1..Len(ev.outputs) :
           LET o == ev.outputs[i]
               valid == ~o.schema_none /\ ParsesAndValidates(o)
           IN  /\ "failure" \in DOMAIN o
               /\ o.failure = ~valid
               /\ ~valid => /\ "failure_type" \in DOMAIN o
                            /\ o.failure_type = FailureType(o)

\* C15: evaluate returns six components, the sixth being the input outputs,
\* each exactly once and in input order.
C15_EvaluateReturnsSixComponents ==
    ev.pc = "returned" =>
        /\ Len(ev.result) = 6
        /\ ev.result[6] = ev.outputs

\* prft of a sample, first_token_arrival_time - grammar_compilation_end_time,
\* from its ttft and gct (both counted from the same start time)
PrftOf(o) == IF o.ttft = None \/ o.gct = None THEN None ELSE o.ttft - o.gct

\* the Metric computed directly over the non-absent values of one dimension
DirectMetric(f(_)) ==
    LET kept == SelectSeq(ev.outputs, LAMBDA o : f(o) # None)
    IN  MakeMetric([k \in 1..Len(kept) |-> Int2Num(f(kept[k]))])

\* C19: evaluate reports one Metric for each of ttft, tpot, tgt, gct and
\* prft, each computed without resampling over exactly the non-absent
\* per-sample values of that dimension.
C19_FiveLatencyMetricsOverRawValues ==
    ev.pc = "returned" =>
        /\ ev.result[4].ttft = DirectMetric(LAMBDA o : o.ttft)
        /\ ev.result[4].tpot = DirectMetric(LAMBDA o : o.tpot)
        /\ ev.result[4].tgt = DirectMetric(LAMBDA o : o.tgt)
        /\ ev.result[4].gct = DirectMetric(LAMBDA o : o.gct)
        /\ ev.result[4].prft = DirectMetric(PrftOf)

\* bootstrap has returned the three lists (ev.pc = "metrics") and evaluate
\* goes on to build the Metrics; the three pools with their lists
BootstrapDone == ev.pc \in {"metrics", "returned", "raised"}
Resampled ==
    <<<<ev.declared_coverage_list, ev.dc_mean_list>>,
      <<ev.empirical_coverage_list, ev.ec_mean_list>>,
      <<ev.compliance_list, ev.c_mean_list>>>>
MinOf(pool) == CHOOSE x \in {pool[i] : i \in 1..Len(pool)} :
                  \A i \in 1..Len(pool) : x <= pool[i]
MaxOf(pool) == CHOOSE x \in {pool[i] : i \in 1..Len(pool)} :
                  \A i \in 1..Len(pool) : x >= pool[i]

\* C17: for a non-empty pool bootstrap returns exactly n_samples values,
\* each the mean of len(pool) elements drawn with replacement from the
\* pool, hence between min(pool) and max(pool), and in [0, 1] for bits.
C17_BootstrapMeansOfResamples ==
    ev.pc = "metrics" =>
        \A p \in 1..3 :
           LET pool == Resampled[p][1]
               means == Resampled[p][2]
               n == Len(pool)
               \* the sums of n elements drawn with replacement from the pool
               sums == {SumSeq(draw) :
                           draw \in [1..n -> {pool[i] : i \in 1..n}]}
               lowest == MinOf(pool) * n
               highest == MaxOf(pool) * n
           IN  pool # <<>> =>
                 /\ Len(means) = n_samples
                 /\ \A j \in 1..Len(means) :
                       /\ means[j].kind = "num"
                       /\ means[j].den = n
                       /\ means[j].num \in sums
                       /\ lowest <= means[j].num
                       /\ means[j].num <= highest
                       /\ 0 <= means[j].num /\ means[j].num <= means[j].den

C17_Witness ==
    /\ ev.pc = "metrics"
    /\ ev.empirical_coverage_list = <<1, 0>>
    /\ Len(ev.ec_mean_list) = n_samples
    /\ ev.ec_mean_list[1] = Num(1, 2)
    /\ ev.ec_mean_list[2] = Num(2, 2)

\* x is the number c
IsNumber(x, c) == x.kind = "num" /\ x.den > 0 /\ x.num = c * x.den

\* C18: for a non-empty pool whose bits all equal c, the Metric built from
\* the bootstrap values has median, min and max equal to c and std 0,
\* whatever the draws.
C18_ConstantPoolGivesConstantMetric ==
    BootstrapDone =>
        \A p \in 1..3 : \A c \in {0, 1} :
           LET pool == Resampled[p][1]
               m == MakeMetric(Resampled[p][2])
           IN  (pool # <<>> /\ \A i \in 1..Len(pool) : pool[i] = c) =>
                 /\ IsNumber(m.median, c)
                 /\ IsNumber(m.min, c)
                 /\ IsNumber(m.max, c)
                 /\ IsNumber(m.std, 0)
                 /\ ev.pc = "returned" => ev.result[p] = m

C18_Witness ==
    /\ ev.pc = "metrics"
    /\ ev.declared_coverage_list = <<1, 1>>
    /\ ev.empirical_coverage_list = <<0, 0>>
    /\ ev.compliance_list = <<0, 0>>

\* ========================================================================
\* Properties of PerfMetrics.from_timestamps (SpecPerf)
\* ========================================================================
Present(x) == x # None

\* C20: from_timestamps gives a result for every combination of absent
\* timestamps: tgt is always present, ttft is present iff the first token
\* time is, gct iff the compilation end time is, prft iff both are, tpot iff
\* the first token time is present and there are at least 2 output tokens,
\* and then tpot = 1000 * (end - first_token) / (num_output_tokens - 1).
C20_FromTimestampsAbsence ==
    pc = "idle" =>
        LET n == token_usage.output_tokens
            ftat == first_token_arrival_time
            gce == grammar_compilation_end_time
        IN  /\ Present(perf_metrics.tgt)
            /\ perf_metrics.tgt = now - gen_start_time
            /\ Present(perf_metrics.ttft) <=> Present(ftat)
            /\ Present(perf_metrics.gct) <=> Present(gce)
            /\ Present(perf_metrics.prft) <=> (Present(ftat) /\ Present(gce))
            /\ Present(perf_metrics.tpot) <=> (Present(ftat) /\ n >= 2)
            /\ Present(perf_metrics.tpot) =>
                  /\ perf_metrics.tpot = 1000 * ((now - ftat) \div (n - 1))
                  /\ (now - ftat) % (n - 1) = 0 =>
                        perf_metrics.tpot * (n - 1) = 1000 * (now - ftat)

C20_Witness ==
    /\ pc = "idle"
    /\ first_token_arrival_time = 2
    /\ grammar_compilation_end_time = None
    /\ now = 6
    /\ token_usage.output_tokens = 3
    /\ perf_metrics.tpot = 2000
    /\ perf_metrics.prft = None
    /\ perf_metrics.gct = None

\* ========================================================================
\* Properties of bench and of the engine's usage counter (Spec)
\* ========================================================================
RECURSIVE UsageSum(_)
\* the field-wise sum of the token_usage of a list of outputs
UsageSum(outs) ==
    IF outs = <<>> THEN [input_tokens |-> 0, output_tokens |-> 0]
    ELSE LET rest == UsageSum(Tail(outs))
         IN  [input_tokens  |-> Head(outs).token_usage.input_tokens
                                  + rest.input_tokens,
              output_tokens |-> Head(outs).token_usage.output_tokens
                                  + rest.output_tokens]

\* C21: the engine's total_usage is (0, 0) at construction and at every
\* moment equals the field-wise sum of the token_usage of the outputs its
\* generate calls have returned so far; every summand is non-negative, so
\* the total never decreases, and no step other than the return of generate
\* changes it.
C21_TotalUsageIsSumOfReturned ==
    /\ total_usage = UsageSum(task_outputs)
    /\ \A i \in 1..Len(task_outputs) :
          /\ task_outputs[i].token_usage.input_tokens >= 0
          /\ task_outputs[i].token_usage.output_tokens >= 0
    /\ task_outputs = <<>> => total_usage = TokenUsage

\* two calls have returned, each with tokens of its own
C21_Witness ==
    /\ Len(task_outputs) >= 2
    /\ task_outputs[1].token_usage.output_tokens > 0
    /\ task_outputs[2].token_usage.output_tokens > 0
    /\ total_usage.output_tokens
         = task_outputs[1].token_usage.output_tokens
           + task_outputs[2].token_usage.output_tokens

\* ========================================================================
\* The result sink: the persistence step of bench run by several workers
\* (src/core/bench.py 108-123, save_evaluation_results_to_csv and
\* upload_to_s3 of src/core/utils.py)
\* ========================================================================
\* workers that reach the persistence step in one run
MaxWriters == 2

Writers == 1..MaxWriters

\* every variable of the generation lifecycle at its value before any call
LifecycleIdle ==
    /\ engine = "openai_compatible"
    /\ sample = 0
    /\ pc = "idle"
    /\ env = DefaultEnv
    /\ now = 0
    /\ gen_start_time = 0
    /\ to_state = "EXECUTED"
    /\ compile_status = "TBD"
    /\ decoding_status = "TBD"
    /\ grammar_compilation_end_time = None
    /\ first_token_arrival_time = None
    /\ generation = <<>>
    /\ generated_tokens = <<>>
    /\ token_usage = TokenUsage
    /\ perf_metrics = NoPerfMetrics
    /\ total_usage = TokenUsage
    /\ tokens_bound = FALSE
    /\ tokens_str = <<>>
    /\ chunks_seen = 0
    /\ ftat_local = None
    /\ probe_result = "none"
    /\ decode_entered = FALSE
    /\ stream_failed = FALSE
    /\ failed_probes = {}

\* writer.writeheader(): the line of the field names
CsvHeader == [kind |-> "header", writer |-> 0, task |-> 0, newline |-> TRUE]

\* writer.writerow(row): the row of one (engine, task) result
CsvRow(w, t) == [kind |-> "row", writer |-> w, task |-> t, newline |-> TRUE]

\* a worker holding the metrics of task t, about to persist them
AtPersist(t) ==
    [pc |-> "persist", task |-> t, file_exists |-> FALSE, buf |-> <<>>,
     snapshot |-> NoFile]

\* every worker has evaluated its first task; the run directory is new, so
\* eval_results.csv does not exist and nothing is stored under the remote key
InitSink ==
    /\ LifecycleIdle
    /\ ev = EvIdle
    /\ BenchIdle
    /\ RunnerIdle
    /\ ToolIdle
    /\ csv = NoFile
    /\ write_lock = None
    /\ writer = [w \in Writers |-> AtPersist(1)]
    /\ s3 = NoFile

\* the call enters its critical section whether or not the lock is free
SaveAcquire_NoLock(w) ==
    /\ writer[w].pc = "persist"
    /\ write_lock' = w
    /\ writer' = [writer EXCEPT ![w].pc = "locked"]
    /\ UNCHANGED <<lifecycle_vars, ev, bench_vars, runner_vars, tool_vars, csv, s3>>

\* save_evaluation_results_to_csv: the row is built, then `with write_lock`
\* blocks until the lock is free and takes it
SaveAcquire(w) ==
    /\ writer[w].pc = "persist"
    /\ write_lock = None
    /\ write_lock' = w
    /\ writer' = [writer EXCEPT ![w].pc = "locked"]
    /\ UNCHANGED <<lifecycle_vars, ev, bench_vars, runner_vars, tool_vars, csv, s3>>

\* file_exists = os.path.exists(csv_path)
SaveExists(w) ==
    /\ writer[w].pc = "locked"
    /\ writer' = [writer EXCEPT ![w].pc = "checked",
                                ![w].file_exists = csv.exists]
    /\ UNCHANGED <<lifecycle_vars, ev, bench_vars, runner_vars, tool_vars, csv,
                   write_lock, s3>>

\* open(csv_path, "a", newline=""): creates the file when it is missing
SaveOpen(w) ==
    /\ writer[w].pc = "checked"
    /\ csv' = [csv EXCEPT !.exists = TRUE]
    /\ writer' = [writer EXCEPT ![w].pc = "opened", ![w].buf = <<>>]
    /\ UNCHANGED <<lifecycle_vars, ev, bench_vars, runner_vars, tool_vars, write_lock, s3>>

\* writer.writeheader() when the file did not exist, then
\* writer.writerow(row): the lines go to the buffer of the open file
SaveWrite(w) ==
    /\ writer[w].pc = "opened"
    /\ writer' =
         [writer EXCEPT
            ![w].pc = "written",
            ![w].buf = (IF writer[w].file_exists THEN <<>> ELSE <<CsvHeader>>)
                         \o <<CsvRow(w, writer[w].task)>>]
    /\ UNCHANGED <<lifecycle_vars, ev, bench_vars, runner_vars, tool_vars, csv,
                   write_lock, s3>>

\* the inner `with` ends: the buffer is appended to the end of the file
SaveClose(w) ==
    /\ writer[w].pc = "written"
    /\ csv' = [csv EXCEPT !.lines = @ \o writer[w].buf]
    /\ writer' = [writer EXCEPT ![w].pc = "closed", ![w].buf = <<>>]
    /\ UNCHANGED <<lifecycle_vars, ev, bench_vars, runner_vars, tool_vars, write_lock, s3>>

\* `with write_lock` ends: the lock is released and the call returns
SaveRelease(w) ==
    /\ writer[w].pc = "closed"
    /\ write_lock' = None
    /\ writer' = [writer EXCEPT ![w].pc = "saved"]
    /\ UNCHANGED <<lifecycle_vars, ev, bench_vars, runner_vars, tool_vars, csv, s3>>

\* bench calls upload_to_s3(results_path, s3_path) after the call above
\* returned: s3.upload_file starts reading the local file
UploadStart(w) ==
    /\ writer[w].pc = "saved"
    /\ writer' = [writer EXCEPT ![w].pc = "uploading", ![w].snapshot = csv]
    /\ UNCHANGED <<lifecycle_vars, ev, bench_vars, runner_vars, tool_vars, csv,
                   write_lock, s3>>

\* UploadEnd with upload_to_s3's try/except removed: the exception of a
\* failed upload leaves bench, the worker stops before its next task
UploadEnd_Propagates(w) ==
    /\ writer[w].pc = "uploading"
    /\ \/ /\ s3' = writer[w].snapshot
          /\ writer' =
               [writer EXCEPT
                  ![w] = IF writer[w].task < Len(tasks)
                         THEN AtPersist(writer[w].task + 1)
                         ELSE [AtPersist(writer[w].task) EXCEPT !.pc = "done"]]
       \/ /\ s3' = s3
          /\ writer' = [writer EXCEPT ![w].pc = "raised"]
    /\ UNCHANGED <<lifecycle_vars, ev, bench_vars, runner_vars, tool_vars, csv, write_lock>>

\* the upload ends: the object is stored, or the exception is caught and
\* printed by upload_to_s3; bench goes on with the next task of the list
UploadEnd(w) ==
    /\ writer[w].pc = "uploading"
    /\ \/ s3' = writer[w].snapshot
       \/ s3' = s3
    /\ writer' =
         [writer EXCEPT
            ![w] = IF writer[w].task < Len(tasks)
                   THEN AtPersist(writer[w].task + 1)
                   ELSE [AtPersist(writer[w].task) EXCEPT !.pc = "done"]]
    /\ UNCHANGED <<lifecycle_vars, ev, bench_vars, runner_vars, tool_vars, csv, write_lock>>

NextSink ==
    \E w \in Writers :
        \/ SaveAcquire(w)
        \/ SaveExists(w)
        \/ SaveOpen(w)
        \/ SaveWrite(w)
        \/ SaveClose(w)
        \/ SaveRelease(w)
        \/ UploadStart(w)
        \/ UploadEnd(w)

SpecSink == InitSink /\ [][NextSink]_vars

\* ------------------------------------------------- properties (SpecSink)
\* the worker is between the exists-check and the close of one call
InCall(w) == writer[w].pc \in {"locked", "checked", "opened", "written", "closed"}

\* the call of worker w for task t has written its row
RowWritten(w, t) ==
    \/ t < writer[w].task
    \/ t = writer[w].task
         /\ writer[w].pc \in {"closed", "saved", "uploading", "done"}

\* C22: under every interleaving of workers saving rows to the same CSV
\* path, at most one call is between its exists-check and its close, the
\* file's first line is the header and no other line is, every following
\* line is one complete row, and the rows are exactly those of the calls
\* that have written, one line each.
C22_CsvHeaderOnceRowsWhole ==
    /\ \A v, w \in Writers : InCall(v) /\ InCall(w) => v = w
    /\ csv.lines # <<>> => csv.lines[1] = CsvHeader
    /\ \A i \in 2..Len(csv.lines) :
          csv.lines[i].kind = "row" /\ csv.lines[i].newline
    /\ (csv.exists /\ write_lock = None) => csv.lines # <<>>
    /\ \A w \in Writers : \A t \in 1..Len(tasks) :
          Cardinality({i \in 1..Len(csv.lines) : csv.lines[i] = CsvRow(w, t)})
            = IF RowWritten(w, t) THEN 1 ELSE 0

\* two workers have both saved rows, one of them after the other had
\* created the file
C22_Witness ==
    /\ Len(csv.lines) >= 4
    /\ \E i, j \in 2..Len(csv.lines) :
          i < j /\ csv.lines[i].writer # csv.lines[j].writer
    /\ \E w \in Writers : writer[w].pc = "done"

\* the worker has the CSV open for appending
Appending(w) == writer[w].pc \in {"opened", "written"}

\* the worker's upload of the CSV is in progress
Uploading(w) == writer[w].pc = "uploading"

max_workers == 4

\* config files one provider lists in config.json
MaxModels == 2

\* the provider keys of config.json, in the order of the file: one more
\* than the pool has threads, so that a future has to wait for a thread
Providers == 1..(max_workers + 1)

\* the files under CONFIG_ROOT: the provider and tokenizer fields of each
ConfigFiles ==
    <<[provider |-> "sambanova", tokenizer |-> <<"a", "/", "b">>],
      [provider |-> "sambanova", tokenizer |-> <<"a", "_", "b">>],
      [provider |-> "fireworks", tokenizer |-> <<"a", "/", "b">>]>>

\* the n config files provider p lists, starting at its own place in the
\* directory
ModelsOf(p, n) == [i \in 1..n |-> ((p + i) % Len(ConfigFiles)) + 1]

\* load_config(OpenAICompatibleConfig, CONFIG_ROOT / model)
load_config(model) == ConfigFiles[model]

\* tokenizer.replace('/', '_')
replace(tokenizer) ==
    [i \in 1..Len(tokenizer) |->
        IF tokenizer[i] = "/" THEN "_" ELSE tokenizer[i]]

\* save_json_output_path of an openai_compatible engine, below output_path
\* (output_path is the same directory for every worker of a run)
save_json_output_path(config) ==
    <<"openai_compatible", config.provider, replace(config.tokenizer), ".jsonl">>

\* a future that was submitted and waits for a thread
Pending ==
    [pc |-> "pending", k |-> 0, path |-> <<>>, errors |-> 0, seen |-> FALSE]

\* main has read config.json (any number of config files per provider, or
\* the empty dict load_json_config returns for an unreadable file) and is
\* about to create the pool
InitRunner ==
    /\ LifecycleIdle
    /\ ev = EvIdle
    /\ BenchIdle
    /\ SinkIdle
    /\ ToolIdle
    /\ config_file \in
          {[p \in Providers |-> ModelsOf(p, n)] : n \in 0..MaxModels} \cup {<<>>}
    /\ main_pc = "start"
    /\ worker = <<>>

\* executor.submit for every item of config_file
MainSubmit ==
    /\ main_pc = "start"
    /\ worker' = [p \in DOMAIN config_file |-> Pending]
    /\ main_pc' = "as_completed"
    /\ UNCHANGED <<lifecycle_vars, ev, bench_vars, sink_vars, tool_vars, config_file>>

\* the future's call is being executed by a thread of the pool
Running(p) == worker[p].pc \in {"run_bench", "bench", "sampling"}

\* the future is done
Done(p) == worker[p].pc \in {"returned", "raised"}

\* run_provider_benchmarks goes to the next model of its list, or returns
NextModel(w, models) ==
    IF w.k < Len(models)
    THEN [w EXCEPT !.pc = "run_bench", !.k = w.k + 1, !.path = <<>>]
    ELSE [w EXCEPT !.pc = "returned", !.path = <<>>]

\* the exception leaves run_bench and run_provider_benchmarks
RunBenchExcept_Propagates(w, models) ==
    [w EXCEPT !.pc = "raised", !.path = <<>>]

\* run_bench's `except Exception`: the error is printed, run_bench returns
\* and the loop over the models goes on
RunBenchExcept(w, models) ==
    NextModel([w EXCEPT !.errors = w.errors + 1], models)

\* every thread is taken or not: the future starts at once
WorkerStart_NoLimit(p) ==
    /\ main_pc = "as_completed"
    /\ p \in DOMAIN worker
    /\ worker[p].pc = "pending"
    /\ \A q \in DOMAIN worker : q < p => worker[q].pc # "pending"
    /\ \/ worker' = [worker EXCEPT ![p] = NextModel(worker[p], config_file[p])]
       \/ worker' = [worker EXCEPT ![p].pc = "raised"]
    /\ UNCHANGED <<lifecycle_vars, ev, bench_vars, sink_vars, tool_vars, config_file, main_pc>>

\* A thread of the pool takes the oldest waiting future (at most max_workers
\* threads exist) and enters run_provider_benchmarks: the output directory
\* is created, or mkdir raises and the future ends with the exception.
WorkerStart(p) ==
    /\ main_pc = "as_completed"
    /\ p \in DOMAIN worker
    /\ worker[p].pc = "pending"
    /\ \A q \in DOMAIN worker : q < p => worker[q].pc # "pending"
    /\ Cardinality({q \in DOMAIN worker : Running(q)}) < max_workers
    /\ \/ worker' = [worker EXCEPT ![p] = NextModel(worker[p], config_file[p])]
       \/ worker' = [worker EXCEPT ![p].pc = "raised"]
    /\ UNCHANGED <<lifecycle_vars, ev, bench_vars, sink_vars, tool_vars, config_file, main_pc>>

\* run_bench: load_config and the engine's constructor succeed and bench is
\* called, or one of them raises (bad config, unreachable backend)
RunBenchLoad(p) ==
    /\ p \in DOMAIN worker
    /\ worker[p].pc = "run_bench"
    /\ \/ worker' = [worker EXCEPT ![p].pc = "bench"]
       \/ worker' = [worker EXCEPT ![p] = RunBenchExcept(worker[p], config_file[p])]
    /\ UNCHANGED <<lifecycle_vars, ev, bench_vars, sink_vars, tool_vars, config_file, main_pc>>

\* bench with save_outputs=True: the output path is derived from the
\* engine's config, the file is opened with "w" and the header written
BenchOpen(p) ==
    /\ p \in DOMAIN worker
    /\ worker[p].pc = "bench"
    /\ worker' =
         [worker EXCEPT
            ![p].pc = "sampling",
            ![p].path = save_json_output_path(
                            load_config(config_file[p][worker[p].k]))]
    /\ UNCHANGED <<lifecycle_vars, ev, bench_vars, sink_vars, tool_vars, config_file, main_pc>>

\* bench's loop over the samples of the first task and its call of evaluate
\* (the actions of Spec): generate raises, or evaluate raises, or the
\* unpacking of evaluate's result raises; run_bench catches the exception
BenchRaise(p) ==
    /\ p \in DOMAIN worker
    /\ worker[p].pc = "sampling"
    /\ worker' = [worker EXCEPT ![p] = RunBenchExcept(worker[p], config_file[p])]
    /\ UNCHANGED <<lifecycle_vars, ev, bench_vars, sink_vars, tool_vars, config_file, main_pc>>

\* as_completed yields a finished future: main prints its outcome
MainResult(p) ==
    /\ main_pc = "as_completed"
    /\ p \in DOMAIN worker
    /\ Done(p)
    /\ ~worker[p].seen
    /\ worker' = [worker EXCEPT ![p].seen = TRUE]
    /\ UNCHANGED <<lifecycle_vars, ev, bench_vars, sink_vars, tool_vars, config_file, main_pc>>

\* every future was yielded: the pool is shut down and main prints the
\* total time
MainDone ==
    /\ main_pc = "as_completed"
    /\ \A p \in DOMAIN worker : worker[p].seen
    /\ main_pc' = "done"
    /\ UNCHANGED <<lifecycle_vars, ev, bench_vars, sink_vars, tool_vars, config_file, worker>>

NextRunner ==
    \/ MainSubmit
    \/ MainDone
    \/ \E p \in Providers :
          \/ WorkerStart(p)
          \/ RunBenchLoad(p)
          \/ BenchOpen(p)
          \/ BenchRaise(p)
          \/ MainResult(p)

SpecRunner == InitRunner /\ [][NextRunner]_vars

\* ----------------------------------------------- properties (SpecRunner)
\* C24: a benchmark that raises (bad config, unreachable backend, an error
\* inside bench) is caught and logged by run_bench and ends only that
\* model's benchmark: the worker goes on to its next model, no future ends
\* with a benchmark's exception, a worker that returned has run every model
\* of its list, and main is never stuck before it has collected every
\* future and printed the total time.
C24_BenchFailureIsolated ==
    /\ \A p \in DOMAIN worker :
          /\ worker[p].pc = "raised" => worker[p].k = 0
          /\ Running(p) => worker[p].errors = worker[p].k - 1
          /\ worker[p].pc = "returned" =>
                /\ worker[p].k = Len(config_file[p])
                /\ worker[p].errors = Len(config_file[p])
    /\ main_pc = "done" => \A p \in DOMAIN worker : Done(p) /\ worker[p].seen
    /\ main_pc # "done" => ENABLED NextRunner

\* main has printed the total time after every benchmark of a run with two
\* models per provider raised, and one provider's worker ended with an
\* exception of its own
C24_Witness ==
    /\ main_pc = "done"
    /\ \E p, q \in DOMAIN worker :
          /\ worker[p].pc = "returned"
          /\ worker[p].errors >= 2
          /\ worker[q].pc = "raised"

\* the worker is inside bench, with its output file chosen
InBench(p) == worker[p].pc = "sampling"

\* C25: two workers that are inside bench at the same time never have the
\* same output file: the .jsonl paths of engines run by different workers
\* are distinct, for every configuration the runner accepts.
C25_OutputFilesDisjoint ==
    \A p, q \in DOMAIN worker :
        (p # q /\ InBench(p) /\ InBench(q)) => worker[p].path # worker[q].path

BenchAborted == pc \in {"aborted", "raised"}

\* C27: with save_outputs enabled, once a task has been sampled and
\* evaluated the output file holds, after its header, one record per
\* processed sample, in the order in which the samples were processed.
C27_RecordsInSampleOrder ==
    (save_outputs /\ pc = "aborted") =>
        /\ Len(jsonl.lines) = 1 + Len(task_outputs)
        /\ \A i \in 1..Len(task_outputs) :
              jsonl.lines[i + 1] = dumps(task_outputs[i])

\* C28: evaluate is called exactly once for every task of the tasks list,
\* and only once generate has returned for every sample of the task; a
\* record of the task is written only after that call.
C28_EvaluateOncePerTaskAfterSampling ==
    /\ \A t \in 1..Len(tasks) : evaluate_calls[t] <= 1
    /\ evaluate_calls[1] > 0 => Len(task_outputs) = sample
    /\ Len(jsonl.lines) > 1 => evaluate_calls[1] > 0
    /\ BenchAborted => \A t \in 1..Len(tasks) : evaluate_calls[t] = 1

\* C29: a compile or decode timeout ends only the lifecycle of its sample:
\* generate returns the output to bench, which goes on with the next sample
\* and the evaluation of the task; no exception leaves generate.
C29_TimeoutEndsOnlyTheSample ==
    (compile_status = "COMPILE_TIMEOUT" \/ decoding_status = "DECODING_TIMEOUT")
        => pc # "raised"

\* C30: with save_outputs enabled, from the moment bench has written the
\* header, at every point of the run and after an exception that leaves
\* bench, the output file exists, its first line is the object
\* {engine, engine_config}, every line is complete, and every line after
\* the first is the record of one collected output.
C30_OutputFileWellFormed ==
    /\ (save_outputs /\ pc # "bench") => jsonl.exists
    /\ jsonl.exists =>
          /\ save_outputs
          /\ jsonl.lines # <<>>
          /\ jsonl.lines[1] = HeaderLine(engine)
          /\ \A i \in 1..Len(jsonl.lines) : jsonl.lines[i].newline
          /\ \A i \in 2..Len(jsonl.lines) :
                \E j \in 1..Len(task_outputs) :
                    jsonl.lines[i] = dumps(task_outputs[j])

\* bench was left by an exception after a sample had been processed, and
\* the output file is there with its header
C30_Witness ==
    /\ save_outputs
    /\ BenchAborted
    /\ sample >= 1
    /\ jsonl.exists
    /\ jsonl.lines[1] = HeaderLine(engine)

\* ------------------------------------------------ status codes at return
\* pc = "ret" is the point where _generate has returned normally to
\* Engine.generate (an exception leaving _generate goes to pc = "raised").
GenerateReturned == pc = "ret"

\* C38: for every engine, whenever _generate returns normally the compile
\* code is not TBD, the decoding code is not TBD only if the compile code is
\* OK, and a compile code of OK comes with a decoding code other than TBD.
C38_StatusCodesAtReturn ==
    GenerateReturned =>
        /\ compile_status # "TBD"
        /\ (decoding_status # "TBD" => compile_status = "OK")
        /\ (compile_status = "OK" => decoding_status # "TBD")

\* a sample whose compilation succeeded and whose decode timer fired
C38_Witness ==
    /\ GenerateReturned
    /\ compile_status = "OK"
    /\ decoding_status = "DECODING_TIMEOUT"

\* C39: for every engine with a compile stage, a returned output has
\* grammar_compilation_end_time present if and only if its compile code is OK.
C39_CompileTimeIffCompileOk ==
    (GenerateReturned /\ engine \in CompilingEngines) =>
        (grammar_compilation_end_time # None <=> compile_status = "OK")

\* ------------------------------------------------ a failed upload (SpecSink)
\* the upload of worker w ends in this step without storing the file it read
UploadFailed(w) ==
    /\ Uploading(w)
    /\ ~Uploading(w)'
    /\ s3' # writer[w].snapshot

\* C33: a failed upload of the CSV never propagates: the step that ends it
\* leaves the local CSV, the output file, the stored object and the mutex
\* as they were, and the worker goes on with the next task of the list (or
\* has finished its last one).
C33_UploadFailureContained ==
    [][\A w \in Writers :
          UploadFailed(w) =>
             /\ csv' = csv
             /\ jsonl' = jsonl
             /\ s3' = s3
             /\ write_lock' = write_lock
             /\ writer'[w] =
                  IF writer[w].task < Len(tasks)
                  THEN AtPersist(writer[w].task + 1)
                  ELSE [AtPersist(writer[w].task) EXCEPT !.pc = "done"]]_vars

\* no upload has stored anything, yet a worker has persisted every task
\* and finished: each of its uploads failed and it went on
C33_Witness ==
    /\ s3 = NoFile
    /\ \E w \in Writers :
          /\ writer[w].pc = "done"
          /\ \A t \in 1..Len(tasks) :
                \E i \in 1..Len(csv.lines) : csv.lines[i] = CsvRow(w, t)

\* ========================================================================
\* The output file read back: bench appends the records of a task
\* (src/core/bench.py 103-106), analyze.py parses the file (16-22)
\* ========================================================================
\* records bench appends to one output file
MaxRecords == 2

\* a Python value: its class and its payload (texts and dicts by number)
PyVal(cls, value) == [cls |-> cls, value |-> value]

PyNone == PyVal("NoneType", 0)

\* the value of a member of CompileStatusCode / DecodingStatusCode
CompileStatusCode_value ==
    [TBD |-> -1, OK |-> 0, UNSUPPORTED_SCHEMA |-> 1,
     RUNTIME_GRAMMAR_ERROR |-> 2, API_BAD_RESPONSE |-> 3,
     PROMPT_TOO_LONG |-> 4, COMPILE_TIMEOUT |-> 5, RUNTIME_TIMEOUT |-> 6,
     UNKOWN_ERROR |-> 7]

DecodingStatusCode_value ==
    [TBD |-> -1, OK |-> 0, EXCEEDING_MAX_CTX |-> 1, DECODING_TIMEOUT |-> 2,
     BAD_API_RESPONSE |-> 3, UNKOWN_ERROR |-> 4]

\* a == b of plain Enum members and other objects: the same class and value
py_eq_PlainEnum(a, b) == a = b

\* a == b in Python: both Enum classes are declared `(int, Enum)`, so their
\* members compare as the integers they are, with each other and with ints
py_eq(a, b) ==
    LET IntLike == {"int", "CompileStatusCode", "DecodingStatusCode"}
    IN  IF a.cls \in IntLike /\ b.cls \in IntLike
        THEN a.value = b.value
        ELSE a = b

\* a GenerationOutput: the fields the file is read back for
GenerationOutput(task, text, schema, compile_code, decoding_code) ==
    [task |-> PyVal("str", task),
     generation |-> text,
     schema |-> PyVal("dict", schema),
     metadata |->
        [compile_status |->
            PyVal("CompileStatusCode", CompileStatusCode_value[compile_code]),
         decoding_status |->
            PyVal("DecodingStatusCode", DecodingStatusCode_value[decoding_code])]]

\* the outputs evaluate hands back to bench: task t of the list with its
\* schema, a generation when decoding ended OK, and the status codes a
\* returned output can carry
EvaluatedOutputs ==
    {GenerationOutput(t, PyNone, t, c, "TBD") :
        t \in 1..Len(tasks), c \in CompileStatusCode \ {"TBD", "OK"}}
    \cup
    {GenerationOutput(t, IF d = "OK" THEN PyVal("str", 1) ELSE PyNone,
                      t, "OK", d) :
        t \in 1..Len(tasks), d \in DecodingStatusCode \ {"TBD"}}

\* json.dumps of one value: None is null, a str a string, a dict an object,
\* an int (a member of an int-mixin Enum is one) the number of its value
json_encode(v) ==
    [tok |-> CASE v.cls = "NoneType" -> "null"
               [] v.cls = "str" -> "string"
               [] v.cls = "dict" -> "object"
               [] OTHER -> "number",
     value |-> v.value]

\* asdict(output) as json.dumps writes it
asdict(o) ==
    [task |-> json_encode(o.task),
     generation |-> json_encode(o.generation),
     schema |-> json_encode(o.schema),
     metadata |->
        [compile_status |-> json_encode(o.metadata.compile_status),
         decoding_status |-> json_encode(o.metadata.decoding_status)]]

\* json.loads of one value: a number comes back as an int
json_decode(j) ==
    PyVal(CASE j.tok = "null" -> "NoneType"
            [] j.tok = "string" -> "str"
            [] j.tok = "object" -> "dict"
            [] OTHER -> "int",
          j.value)

\* loads(line): the dict of one line
loads(line) ==
    [task |-> json_decode(line.json.task),
     generation |-> json_decode(line.json.generation),
     schema |-> json_decode(line.json.schema),
     metadata |->
        [compile_status |-> json_decode(line.json.metadata.compile_status),
         decoding_status |-> json_decode(line.json.metadata.decoding_status)]]

\* from_dict(GenerationOutput, data, Config(check_types=False)): the nested
\* dataclasses are built from the dicts, no value is cast or type-checked,
\* so the status codes stay the ints loads returned
from_dict(data) == data

\* the file after bench wrote its header line (bench.py 67-68); analyze.py
\* has not been started
InitAnalyze ==
    /\ LifecycleIdle
    /\ ev = EvIdle
    /\ save_outputs = TRUE
    /\ task_outputs = <<>>
    /\ jsonl = [exists |-> TRUE, lines |-> <<HeaderLine(engine)>>]
    /\ evaluate_calls = [t \in 1..Len(tasks) |-> 0]
    /\ RunnerIdle
    /\ SinkIdle
    /\ ToolIdle

\* bench: `f.write(f"{dumps(asdict(output))}\n")` for one evaluated output
BenchAppend ==
    /\ analyze_pc = "idle"
    /\ Len(persisted) < MaxRecords
    /\ \E o \in EvaluatedOutputs :
          /\ jsonl' = [jsonl EXCEPT !.lines = Append(@, dumps(asdict(o)))]
          /\ persisted' = Append(persisted, o)
    /\ UNCHANGED <<lifecycle_vars, ev, save_outputs, task_outputs,
                   evaluate_calls, runner_vars, sink_vars, analyze_pc, f_pos,
                   lines, outputs, val, print_vars, adapt>>

\* analyze: `engine_config = loads(f.readline())` returns the first line
AnalyzeReadline ==
    /\ analyze_pc = "idle"
    /\ jsonl.exists
    /\ f_pos' = f_pos + 1
    /\ analyze_pc' = "readlines"
    /\ UNCHANGED <<lifecycle_vars, ev, bench_vars, runner_vars, sink_vars,
                   persisted, lines, outputs, val, print_vars, adapt>>

\* analyze: `f.readlines()[1:]`: the lines from the file position to the
\* end of the file, without the first of them
AnalyzeReadlines ==
    /\ analyze_pc = "readlines"
    /\ LET rest == SubSeq(jsonl.lines, f_pos, Len(jsonl.lines))
       IN  lines' = SubSeq(rest, 2, Len(rest))
    /\ f_pos' = Len(jsonl.lines) + 1
    /\ analyze_pc' = "parse"
    /\ UNCHANGED <<lifecycle_vars, ev, bench_vars, runner_vars, sink_vars,
                   persisted, outputs, val, print_vars, adapt>>

\* analyze: one element of the list comprehension
AnalyzeFromDict ==
    /\ analyze_pc = "parse"
    /\ lines # <<>>
    /\ outputs' = Append(outputs, from_dict(loads(Head(lines))))
    /\ lines' = Tail(lines)
    /\ UNCHANGED <<lifecycle_vars, ev, bench_vars, runner_vars, sink_vars,
                   persisted, analyze_pc, f_pos, val, print_vars, adapt>>

\* analyze: the list is complete and is grouped by task for evaluate
AnalyzeGroup ==
    /\ analyze_pc = "parse"
    /\ lines = <<>>
    /\ analyze_pc' = "evaluate"
    /\ UNCHANGED <<lifecycle_vars, ev, bench_vars, runner_vars, sink_vars,
                   persisted, f_pos, lines, outputs, val, print_vars, adapt>>

NextAnalyze ==
    \/ BenchAppend
    \/ AnalyzeReadline
    \/ AnalyzeReadlines
    \/ AnalyzeFromDict
    \/ AnalyzeGroup

SpecAnalyze == InitAnalyze /\ [][NextAnalyze]_vars

\* ----------------------------------------------- properties (SpecAnalyze)
\* the parsed output has the task, generation, schema and status codes of
\* the output that was written
SameRecord(parsed, written) ==
    /\ py_eq(parsed.task, written.task)
    /\ py_eq(parsed.generation, written.generation)
    /\ py_eq(parsed.schema, written.schema)
    /\ py_eq(parsed.metadata.compile_status, written.metadata.compile_status)
    /\ py_eq(parsed.metadata.decoding_status, written.metadata.decoding_status)

\* the lines analyze has parsed or still holds are the last lines of the file
Skipped == Len(persisted) - Len(outputs) - Len(lines)

C36_AnalyzeReadsEveryRecord ==
    analyze_pc = "evaluate" =>
        /\ Len(outputs) = Len(jsonl.lines) - 1
        /\ \A i \in 1..Len(outputs) : SameRecord(outputs[i], persisted[i])

\* ========================================================================
\* disable_print under the runner's worker threads
\* (src/core/utils.py 70-80, entered by bench around every generate call,
\* src/core/bench.py 91-94; one bench per thread of the pool)
\* ========================================================================
\* worker threads running bench at the same time
MaxThreads == 2

Threads == 1..MaxThreads

\* the stream every open(os.devnull, "w") gives
Devnull == "devnull"

\* a thread outside disable_print that has entered it n times
Outside(n) ==
    [pc |-> "outside", stdout |-> "unbound", stderr |-> "unbound", n |-> n]

\* the threads are in bench's sample loop, the process has its real streams
InitPrint ==
    /\ LifecycleIdle
    /\ ev = EvIdle
    /\ BenchIdle
    /\ RunnerIdle
    /\ SinkIdle
    /\ persisted = <<>>
    /\ analyze_pc = "idle"
    /\ f_pos = 1
    /\ lines = <<>>
    /\ outputs = <<>>
    /\ val = [pc |-> "idle"]
    /\ adapt = [pc |-> "idle"]
    /\ sys_stdout = RealStdout
    /\ sys_stderr = RealStderr
    /\ printer = [t \in Threads |-> Outside(0)]

\* `with disable_print():` of the next sample: `stdout = sys.stdout`
PrintSaveStdout(t) ==
    /\ printer[t].pc = "outside"
    /\ printer[t].n < MaxSamples
    /\ printer' = [printer EXCEPT ![t].pc = "save_err",
                                 ![t].stdout = sys_stdout,
                                 ![t].n = @ + 1]
    /\ UNCHANGED <<lifecycle_vars, ev, bench_vars, runner_vars, sink_vars,
                   analyze_vars, val, sys_stdout, sys_stderr, adapt>>

\* `stderr = sys.stderr`
PrintSaveStderr(t) ==
    /\ printer[t].pc = "save_err"
    /\ printer' = [printer EXCEPT ![t].pc = "set_out",
                                 ![t].stderr = sys_stderr]
    /\ UNCHANGED <<lifecycle_vars, ev, bench_vars, runner_vars, sink_vars,
                   analyze_vars, val, sys_stdout, sys_stderr, adapt>>

\* `sys.stdout = open(os.devnull, "w")`
PrintSetStdout(t) ==
    /\ printer[t].pc = "set_out"
    /\ sys_stdout' = Devnull
    /\ printer' = [printer EXCEPT ![t].pc = "set_err"]
    /\ UNCHANGED <<lifecycle_vars, ev, bench_vars, runner_vars, sink_vars,
                   analyze_vars, val, sys_stderr, adapt>>

\* `sys.stderr = open(os.devnull, "w")`, then `yield`: the body starts
PrintSetStderr(t) ==
    /\ printer[t].pc = "set_err"
    /\ sys_stderr' = Devnull
    /\ printer' = [printer EXCEPT ![t].pc = "body"]
    /\ UNCHANGED <<lifecycle_vars, ev, bench_vars, runner_vars, sink_vars,
                   analyze_vars, val, sys_stdout, adapt>>

\* the body (adapt_schema, generate, append) ends, normally or by an
\* exception; `finally: sys.stdout = stdout`
PrintRestoreStdout(t) ==
    /\ printer[t].pc = "body"
    /\ sys_stdout' = printer[t].stdout
    /\ printer' = [printer EXCEPT ![t].pc = "restore_err"]
    /\ UNCHANGED <<lifecycle_vars, ev, bench_vars, runner_vars, sink_vars,
                   analyze_vars, val, sys_stderr, adapt>>

\* `sys.stderr = stderr`: the thread has left disable_print
PrintRestoreStderr(t) ==
    /\ printer[t].pc = "restore_err"
    /\ sys_stderr' = printer[t].stderr
    /\ printer' = [printer EXCEPT ![t] = Outside(printer[t].n)]
    /\ UNCHANGED <<lifecycle_vars, ev, bench_vars, runner_vars, sink_vars,
                   analyze_vars, val, sys_stdout, adapt>>

NextPrint ==
    \E t \in Threads :
        \/ PrintSaveStdout(t)
        \/ PrintSaveStderr(t)
        \/ PrintSetStdout(t)
        \/ PrintSetStderr(t)
        \/ PrintRestoreStdout(t)
        \/ PrintRestoreStderr(t)

SpecPrint == InitPrint /\ [][NextPrint]_vars

\* -------------------------------------------------- properties (SpecPrint)
\* no thread is inside disable_print
AllOutside == \A t \in Threads : printer[t].pc = "outside"

\* C35: for every interleaving of worker threads entering and leaving
\* disable_print, once all of them have left it sys.stdout and sys.stderr
\* are the original streams again.
C35_StreamsRestored ==
    AllOutside => (sys_stdout = RealStdout /\ sys_stderr = RealStderr)

\* ========================================================================
\* adapt_schema: applied by bench and again by Engine.generate
\* (src/core/bench.py 92, src/core/engine.py 60, the engines' adapt_schema)
\* ========================================================================
\* properties of a sampled schema
MaxProps == 2

\* JSON values as Python holds them; a dict keeps its keys in insertion
\* order, as a sequence of <<key, value>> pairs
Str(s) == [t |-> "str", v |-> s]
Bool(b) == [t |-> "bool", v |-> b]
List(xs) == [t |-> "list", v |-> xs]
Dict(items) == [t |-> "dict", v |-> items]

\* `k in d`
has_key(d, k) == \E i \in 1..Len(d.v) : d.v[i][1] = k

\* `d[k]`
getitem(d, k) == d.v[CHOOSE i \in 1..Len(d.v) : d.v[i][1] = k][2]

\* `d[k] = x`: a present key keeps its place, a new key goes to the end
setitem(d, k, x) ==
    IF has_key(d, k)
    THEN Dict([i \in 1..Len(d.v) |->
                  IF d.v[i][1] = k THEN <<k, x>> ELSE d.v[i]])
    ELSE Dict(Append(d.v, <<k, x>>))

\* `d.pop(k, None)`
pop(d, k) == Dict(SelectSeq(d.v, LAMBDA item : item[1] # k))

\* `list(d.keys())`
keys(d) == List([i \in 1..Len(d.v) |-> Str(d.v[i][1])])

\* the truth value of x
truthy(x) ==
    CASE x.t = "bool" -> x.v
      [] x.t = "str" -> x.v # ""
      [] OTHER -> x.v # <<>>

\* `k in required_fields`, with required_fields = d.get("required", [])
in_required(d, k) ==
    /\ has_key(d, "required")
    /\ \E i \in 1..Len(getitem(d, "required").v) :
          getitem(d, "required").v[i] = Str(k)

add_root_type_if_missing(schema) ==
    IF has_key(schema, "type")
    THEN schema
    ELSE setitem(schema, "type", Str("object"))

RECURSIVE recursively_set_additional_properties_false(_)
recursively_set_additional_properties_false(schema) ==
    IF schema.t # "dict"
    THEN schema
    ELSE
      LET s1 == IF /\ \/ ~has_key(schema, "additionalProperties")
                      \/ truthy(getitem(schema, "additionalProperties"))
                   /\ has_key(schema, "properties")
                   /\ truthy(getitem(schema, "properties"))
                THEN setitem(schema, "additionalProperties", Bool(FALSE))
                ELSE schema
          props == getitem(s1, "properties")
          s2 == IF has_key(s1, "properties")
                THEN setitem(s1, "properties",
                       Dict([i \in 1..Len(props.v) |->
                          <<props.v[i][1],
                            recursively_set_additional_properties_false(
                                props.v[i][2])>>]))
                ELSE s1
      IN  IF has_key(s2, "items")
          THEN setitem(s2, "items",
                 recursively_set_additional_properties_false(
                     getitem(s2, "items")))
          ELSE s2

\* every dict that has a "properties" key gets `required`, the list of the
\* keys of that value; then every dict value and every item of a list value
\* is visited the same way, whatever its key
RECURSIVE set_all_properties_required(_)
set_all_properties_required(schema) ==
    IF schema.t # "dict"
    THEN schema
    ELSE
      LET s1 == IF has_key(schema, "properties")
                THEN setitem(schema, "required",
                             keys(getitem(schema, "properties")))
                ELSE schema
      IN  Dict([i \in 1..Len(s1.v) |->
                 <<s1.v[i][1],
                   CASE s1.v[i][2].t = "dict" ->
                          set_all_properties_required(s1.v[i][2])
                     [] s1.v[i][2].t = "list" ->
                          List([j \in 1..Len(s1.v[i][2].v) |->
                                  set_all_properties_required(
                                      s1.v[i][2].v[j])])
                     [] OTHER -> s1.v[i][2]>>])

\* engine.adapt_schema(schema) of engine e
adapt_schema(e, schema) ==
    CASE e \in {"openai", "openai_compatible"} ->
           set_all_properties_required(
               add_root_type_if_missing(
                   recursively_set_additional_properties_false(schema)))
      [] e = "gemini" ->
           LET no_id == IF in_required(schema, "id")
                        THEN schema ELSE pop(schema, "id")
               no_title == IF in_required(schema, "title")
                           THEN no_id ELSE pop(no_id, "title")
               no_schema == IF in_required(schema, "$schema")
                            THEN no_title ELSE pop(no_title, "$schema")
           IN  IF in_required(schema, "$id")
               THEN no_schema ELSE pop(no_schema, "$id")
      [] e = "guidance" -> add_root_type_if_missing(schema)
      [] OTHER -> schema

\* names a property of a dataset schema can have
PropNames == {"name", "title", "properties"}

\* the property lists of the sampled schemas: distinct names, in any order
PropLists ==
    {ps \in UNION {[1..n -> PropNames] : n \in 0..MaxProps} :
        \A i, j \in 1..Len(ps) : ps[i] = ps[j] => i = j}

\* an object schema with the given properties, each a string, with or
\* without its "type" and a "title"
ObjectSchema(has_type, has_title, ps) ==
    Dict((IF has_title THEN <<<<"title", Str("t")>>>> ELSE <<>>)
         \o (IF has_type THEN <<<<"type", Str("object")>>>> ELSE <<>>)
         \o (IF ps = <<>> THEN <<>>
             ELSE <<<<"properties",
                      Dict([i \in 1..Len(ps) |->
                              <<ps[i], Dict(<<<<"type", Str("string")>>>>)>>])
                    >>>>))

Schemas ==
    {ObjectSchema(has_type, has_title, ps) :
        has_type \in BOOLEAN, has_title \in BOOLEAN, ps \in PropLists}

\* bench's sample loop holds the next schema of the dataset
InitAdapt ==
    /\ engine \in Engines
    /\ sample = 0
    /\ pc = "idle"
    /\ env = DefaultEnv
    /\ now = 0
    /\ gen_start_time = 0
    /\ to_state = "EXECUTED"
    /\ compile_status = "TBD"
    /\ decoding_status = "TBD"
    /\ grammar_compilation_end_time = None
    /\ first_token_arrival_time = None
    /\ generation = <<>>
    /\ generated_tokens = <<>>
    /\ token_usage = TokenUsage
    /\ perf_metrics = NoPerfMetrics
    /\ total_usage = TokenUsage
    /\ tokens_bound = FALSE
    /\ tokens_str = <<>>
    /\ chunks_seen = 0
    /\ ftat_local = None
    /\ probe_result = "none"
    /\ decode_entered = FALSE
    /\ stream_failed = FALSE
    /\ failed_probes = {}
    /\ ev = EvIdle
    /\ BenchIdle
    /\ RunnerIdle
    /\ SinkIdle
    /\ persisted = <<>>
    /\ analyze_pc = "idle"
    /\ f_pos = 1
    /\ lines = <<>>
    /\ outputs = <<>>
    /\ val = [pc |-> "idle"]
    /\ sys_stdout = RealStdout
    /\ sys_stderr = RealStderr
    /\ printer = <<>>
    /\ \E schema \in Schemas :
          adapt = [pc |-> "bench", schema |-> schema, once |-> schema]

\* bench: `schema = engine.adapt_schema(schema)`
BenchAdapt ==
    /\ adapt.pc = "bench"
    /\ adapt' = [pc |-> "generate",
                 schema |-> adapt_schema(engine, adapt.schema),
                 once |-> adapt_schema(engine, adapt.schema)]
    /\ UNCHANGED <<lifecycle_vars, ev, bench_vars, runner_vars, sink_vars,
                   analyze_vars, val, print_vars>>

\* Engine.generate: `schema = self.adapt_schema(schema)`; the result goes
\* into the GenerationOutput and to _generate
GenerateAdapt ==
    /\ adapt.pc = "generate"
    /\ adapt' = [adapt EXCEPT !.pc = "output",
                              !.schema = adapt_schema(engine, adapt.schema)]
    /\ UNCHANGED <<lifecycle_vars, ev, bench_vars, runner_vars, sink_vars,
                   analyze_vars, val, print_vars>>

NextAdapt ==
    \/ BenchAdapt
    \/ GenerateAdapt

SpecAdapt == InitAdapt /\ [][NextAdapt]_vars

\* -------------------------------------------------- properties (SpecAdapt)
\* C37: each engine's adapt_schema is idempotent: the schema stored in the
\* GenerationOutput, adapted by bench and again by Engine.generate, equals
\* the schema after the single adaptation of bench.
C37_AdaptSchemaIdempotent ==
    adapt.pc = "output" => adapt.schema = adapt.once

\* ========================================================================
\* The validator: is_json_schema_valid, the custom format checks and
\* validate_json_schema (src/core/evaluator.py 18-54)
\* ========================================================================
\* the custom formats registered on format_checker
Formats == {"ipv4", "ipv6", "uuid"}

\* schema documents: {"type": "string", "format": f} for each custom format,
\* {"type": "string"}, a document that is no schema ({"type": 5}), a schema
\* with a reference that cannot be resolved ({"$ref": "#/nowhere"}), and a
\* schema nested deeper than the interpreter's recursion limit allows the
\* metaschema check to descend
SchemaDocs ==
    {[kind |-> "format", format |-> f] : f \in Formats}
    \cup {[kind |-> k, format |-> ""] :
            k \in {"string", "invalid", "bad_ref", "deep"}}

\* instances: strings and one value that is no string
Instances ==
    {[type |-> "string", text |-> x] :
        x \in {"127.0.0.1", "256.1.1.1", "::1", ":::",
               "123e4567-e89b-12d3-a456-426614174000", "not-a-uuid"}}
    \cup {[type |-> "integer", text |-> "7"]}

\* the texts IPv4Address, IPv6Address and UUID accept
WellFormed(f, x) ==
    CASE f = "ipv4" -> x = "127.0.0.1"
      [] f = "ipv6" -> x = "::1"
      [] f = "uuid" -> x = "123e4567-e89b-12d3-a456-426614174000"
      [] OTHER -> FALSE

\* ipv4_check / ipv6_check / uuid_check: the constructor is called and its
\* object dropped: the function returns None, or the constructor's
\* ValueError leaves it
custom_check(f, value) ==
    IF WellFormed(f, value.text) THEN "None" ELSE "ValueError"

\* format_checker.check(instance, format) with the function registered by
\* `@format_checker.checks(f)`, no `raises` given: an exception of the
\* function leaves check as it is, a result that is not true is a
\* FormatError
FormatChecker_check(f, value) ==
    LET result == custom_check(f, value)
    IN  IF result = "ValueError" THEN "ValueError"
        ELSE IF result = "True" THEN "ok"
        ELSE "FormatError"

\* Draft202012Validator.check_schema(schema): "ok", or the exception raised
check_schema(schema) ==
    CASE schema.kind = "invalid" -> "SchemaError"
      [] schema.kind = "deep" -> "RecursionError"
      [] OTHER -> "ok"

\* validator.validate(instance): "ok", or the exception raised. `type` is
\* checked before `format`; the first error is raised
validator_validate(schema, instance) ==
    CASE schema.kind = "bad_ref" -> "Unresolvable"
      [] instance.type # "string" -> "ValidationError"
      [] schema.kind = "format" ->
           LET checked == FormatChecker_check(schema.format, instance)
           IN  CASE checked = "ok" -> "ok"
                 [] checked = "FormatError" -> "ValidationError"
                 [] OTHER -> checked
      [] OTHER -> "ok"

\* validate_json_schema(instance, schema) is called
InitValidate ==
    /\ LifecycleIdle
    /\ ev = EvIdle
    /\ BenchIdle
    /\ RunnerIdle
    /\ SinkIdle
    /\ persisted = <<>>
    /\ analyze_pc = "idle"
    /\ f_pos = 1
    /\ lines = <<>>
    /\ outputs = <<>>
    /\ sys_stdout = RealStdout
    /\ sys_stderr = RealStderr
    /\ printer = <<>>
    /\ adapt = [pc |-> "idle"]
    /\ \E schema \in SchemaDocs, instance \in Instances :
          val = [pc |-> "call", schema |-> schema, instance |-> instance,
                 raised |-> "none", result |-> FALSE]

\* `if not is_json_schema_valid(schema): return False`; is_json_schema_valid
\* returns False on SchemaError and lets every other exception through
IsJsonSchemaValid ==
    /\ val.pc = "call"
    /\ LET checked == check_schema(val.schema)
       IN  val' =
             CASE checked = "ok" -> [val EXCEPT !.pc = "construct"]
               [] checked = "SchemaError" ->
                    [val EXCEPT !.pc = "returned", !.result = FALSE]
               [] OTHER -> [val EXCEPT !.pc = "raised", !.raised = checked]
    /\ UNCHANGED <<lifecycle_vars, ev, bench_vars, runner_vars, sink_vars,
                   analyze_vars, print_vars, adapt>>

\* `validator = Draft202012Validator(schema, format_checker=format_checker)`
ValidateConstruct ==
    /\ val.pc = "construct"
    /\ val' = [val EXCEPT !.pc = "try"]
    /\ UNCHANGED <<lifecycle_vars, ev, bench_vars, runner_vars, sink_vars,
                   analyze_vars, print_vars, adapt>>

\* `try: validator.validate(instance)`
ValidateTry ==
    /\ val.pc = "try"
    /\ LET outcome == validator_validate(val.schema, val.instance)
       IN  val' = IF outcome = "ok"
                  THEN [val EXCEPT !.pc = "passed"]
                  ELSE [val EXCEPT !.pc = "except", !.raised = outcome]
    /\ UNCHANGED <<lifecycle_vars, ev, bench_vars, runner_vars, sink_vars,
                   analyze_vars, print_vars, adapt>>

\* `except Exception: return False`
ValidateExcept ==
    /\ val.pc = "except"
    /\ val' = [val EXCEPT !.pc = "returned", !.result = FALSE]
    /\ UNCHANGED <<lifecycle_vars, ev, bench_vars, runner_vars, sink_vars,
                   analyze_vars, print_vars, adapt>>

\* `return True`
ValidateReturnTrue ==
    /\ val.pc = "passed"
    /\ val' = [val EXCEPT !.pc = "returned", !.result = TRUE]
    /\ UNCHANGED <<lifecycle_vars, ev, bench_vars, runner_vars, sink_vars,
                   analyze_vars, print_vars, adapt>>

NextValidate ==
    \/ IsJsonSchemaValid
    \/ ValidateConstruct
    \/ ValidateTry
    \/ ValidateExcept
    \/ ValidateReturnTrue

SpecValidate == InitValidate /\ [][NextValidate]_vars

\* ---------------------------------------------- properties (SpecValidate)
\* C32: validate_json_schema and is_json_schema_valid never raise, and
\* validate_json_schema returns false whenever the schema is invalid, the
\* instance violates a constraint or a format check, or the validator
\* fails with any error.
C32_ValidatorsTotal ==
    /\ val.pc # "raised"
    /\ val.pc = "returned" =>
          ((val.schema.kind \in {"invalid", "bad_ref"} \/ val.raised # "none")
              => val.result = FALSE)

\* C34: for each custom format f and the schema {"type": "string",
\* "format": f}, validate_json_schema returns true for every well-formed
\* value of the format and false, without raising, for every malformed one.
C34_FormatChecksArePredicates ==
    val.schema.kind = "format" =>
        /\ val.pc # "raised"
        /\ val.pc = "returned" =>
              (val.result <=>
                  /\ val.instance.type = "string"
                  /\ WellFormed(val.schema.format, val.instance.text))
====
